---- MODULE Spec2Model ----
(***************************************************************************)
(* Model of the Digest access authentication core of libmicrohttpd        *)
(* (src/microhttpd/digestauth.c): the nonce-nc map array, the admission   *)
(* of new nonces by the challenge builder and the ordered gates of the    *)
(* request verifier.                                                       *)
(*                                                                         *)
(* Representation.  A C string is a sequence of character codes (1..255). *)
(* A uint64_t is a tuple of four 16-bit limbs, most significant first,    *)
(* a uint32_t a tuple of two, so that the wrap-around of the C arithmetic *)
(* is the wrap-around of the limb arithmetic.  A 64-bit mask is the set   *)
(* of the indices (0..63) of its set bits.                                 *)
(***************************************************************************)
EXTENDS Integers, Sequences, FiniteSets, TLC

VARIABLES
  nnc,        \* daemon->nnc: the nonce-nc map array, slot index -> MHD_NonceNc
  nnc_lock,   \* daemon->nnc_lock: 0 when free, else the thread holding it
  clock,      \* the value MHD_monotonic_msec_counter() returns now
  th,         \* per thread: the operation in progress and its local variables
  issued,     \* the nonces sent to clients in WWW-Authenticate headers, each
              \* with whether its admission succeeded ("added"/"refused")
  accepted,   \* history: the (nonce, nc) pairs check_nonce_nc returned OK for
  last,       \* history: the operation that completed last and its result
  nops        \* the numbers of challenges and of verifications started so far

vars == <<nnc, nnc_lock, clock, th, issued, accepted, last, nops>>

(***************************************************************************)
(* Fixed-width unsigned arithmetic                                         *)
(***************************************************************************)

\* One limb holds 16 bits.
W == 256 * 256

\* The uint64_t with value n, for 0 <= n < 2^31.
U64 (n) == <<0, 0, n \div W, n % W>>

U64_ZERO == U64(0)

\* UINT64_MAX
UINT64_MAX == <<W - 1, W - 1, W - 1, W - 1>>

\* a + b modulo 2^64
Add64 (a, b) ==
  LET s0 == a[4] + b[4]
      s1 == a[3] + b[3] + (s0 \div W)
      s2 == a[2] + b[2] + (s1 \div W)
      s3 == a[1] + b[1] + (s2 \div W)
  IN  <<s3 % W, s2 % W, s1 % W, s0 % W>>

\* ~a
Not64 (a) == <<W - 1 - a[1], W - 1 - a[2], W - 1 - a[3], W - 1 - a[4]>>

\* a - b modulo 2^64 (unsigned subtraction wraps)
Sub64 (a, b) == Add64(Add64(a, Not64(b)), U64(1))

\* a < b, a <= b for uint64_t
Lt64 (a, b) ==
  \/ a[1] < b[1]
  \/ a[1] = b[1] /\ a[2] < b[2]
  \/ a[1] = b[1] /\ a[2] = b[2] /\ a[3] < b[3]
  \/ a[1] = b[1] /\ a[2] = b[2] /\ a[3] = b[3] /\ a[4] < b[4]

Le64 (a, b) == a = b \/ Lt64(a, b)

\* The value of a uint64_t known to be below 2^31, as an integer.
Int64 (a) == (a[3] * W) + a[4]

\* a is below 2^16 (fits the lowest limb)
Small64 (a) == a[1] = 0 /\ a[2] = 0 /\ a[3] = 0

\* a / 2 for uint64_t
Half64 (a) ==
  <<a[1] \div 2,
    ((a[1] % 2) * (W \div 2)) + (a[2] \div 2),
    ((a[2] % 2) * (W \div 2)) + (a[3] \div 2),
    ((a[3] % 2) * (W \div 2)) + (a[4] \div 2)>>

\* (a * 16 + d) modulo 2^64, d a hexadecimal digit value
Shl4Add64 (a, d) ==
  LET s0 == (a[4] * 16) + d
      s1 == (a[3] * 16) + (s0 \div W)
      s2 == (a[2] * 16) + (s1 \div W)
      s3 == (a[1] * 16) + (s2 \div W)
  IN  <<s3 % W, s2 % W, s1 % W, s0 % W>>

\* The uint32_t (unsigned int) with value n, 0 <= n < 2^31.
U32 (n) == <<n \div W, n % W>>

\* a * k modulo 2^32 for an unsigned int a and 0 <= k < 2^15: the product of
\* two unsigned int values wraps.
Mul32 (a, k) ==
  LET p0 == a[2] * k
      p1 == (a[1] * k) + (p0 \div W)
  IN  <<p1 % W, p0 % W>>

\* The usual arithmetic conversion of an unsigned int to uint64_t.
U32to64 (a) == <<0, 0, a[1], a[2]>>

\* Bitwise exclusive or of two bytes.
Xor8 (a, b) ==
    ((a + b) % 2)
  + (2 * (((a \div 2) + (b \div 2)) % 2))
  + (4 * (((a \div 4) + (b \div 4)) % 2))
  + (8 * (((a \div 8) + (b \div 8)) % 2))
  + (16 * (((a \div 16) + (b \div 16)) % 2))
  + (32 * (((a \div 32) + (b \div 32)) % 2))
  + (64 * (((a \div 64) + (b \div 64)) % 2))
  + (128 * (((a \div 128) + (b \div 128)) % 2))

\* _MHD_ROTL32 (h, 7) on a uint32_t held as two limbs.
ROTL32_7 (h) ==
  <<((h[1] * 128) % W) + ((h[2] * 128) \div W),
    ((h[2] * 128) % W) + ((h[1] * 128) \div W)>>

\* h ^ b for a uint32_t h and a byte b.
Xor32Byte (h, b) == <<h[1], (h[2] - (h[2] % 256)) + Xor8(h[2] % 256, b)>>

\* h % m for a uint32_t h and a small positive m.
Mod32 (h, m) == (((h[1] % m) * (W % m)) + h[2]) % m

(***************************************************************************)
(* Strings and the helpers of mhd_str                                      *)
(***************************************************************************)

\* The sequence s[lo..hi] (empty when lo > hi).
Slice (s, lo, hi) == [i \in 1..(hi - lo + 1) |-> s[lo + i - 1]]

\* F(v): the expression F with the value v of a subexpression named, so that
\* v is written, and evaluated, once.
With (v, F(_)) == F(v)

\* n copies of the character c.
Fill (c, n) == [i \in 1..n |-> c]

\* The lower-case hexadecimal digit of a value 0..15.
HexChar (n) == IF n < 10 THEN 48 + n ELSE 87 + n

\* MHD_bin_to_hex(): the bytes as lower-case hexadecimal digits, two each.
MHD_bin_to_hex (bin) ==
  [i \in 1..(2 * Len(bin)) |->
     IF i % 2 = 1 THEN HexChar(bin[(i + 1) \div 2] \div 16)
                  ELSE HexChar(bin[i \div 2] % 16)]

\* toxdigitvalue(): the value of a hexadecimal digit, -1 for any other char.
toxdigitvalue (c) ==
  IF c >= 48 /\ c <= 57 THEN c - 48
  ELSE IF c >= 97 /\ c <= 102 THEN c - 87
  ELSE IF c >= 65 /\ c <= 70 THEN c - 55
  ELSE -1

\* The loop of MHD_strx_to_uint64_n_() from position i (1-based) with the
\* value res read so far: the number of characters processed and the value;
\* 0 characters when the value does not fit in 64 bits.
RECURSIVE StrxLoop(_, _, _, _)
StrxLoop (str, maxlen, i, res) ==
  IF i > maxlen \/ i > Len(str) \/ toxdigitvalue(str[i]) < 0
    THEN [n |-> i - 1, val |-> res]
    ELSE IF res[1] >= 4096
      THEN [n |-> 0, val |-> res]
      ELSE StrxLoop(str, maxlen, i + 1, Shl4Add64(res, toxdigitvalue(str[i])))

\* A parser that reports every character as consumed;
\* C10_BadNcIsWrongHeader tells it from MHD_strx_to_uint64_n_.
MHD_strx_to_uint64_n_lax (str, maxlen) ==
  [StrxLoop(str, maxlen, 1, U64_ZERO) EXCEPT !.n = maxlen]

\* MHD_strx_to_uint64_n_(): n is the return value; val is what *out_val holds
\* afterwards when n > 0 (it is left unset when n = 0).
MHD_strx_to_uint64_n_ (str, maxlen) == StrxLoop(str, maxlen, 1, U64_ZERO)

\* The loop of MHD_str_unquote() from position i: a backslash makes the next
\* character literal; the result is empty when the last backslash is not
\* followed by a character.
RECURSIVE UnquoteLoop(_, _, _)
UnquoteLoop (quoted, i, out) ==
  IF i > Len(quoted) THEN out
  ELSE IF quoted[i] = 92
    THEN IF i + 1 > Len(quoted) THEN << >>
         ELSE UnquoteLoop(quoted, i + 2, Append(out, quoted[i + 1]))
    ELSE UnquoteLoop(quoted, i + 1, Append(out, quoted[i]))

\* MHD_str_unquote(): the unquoted string (its length is the return value).
MHD_str_unquote (quoted) == UnquoteLoop(quoted, 1, << >>)

\* quoted ends in a backslash that escapes nothing.
BrokenQuoting (quoted) == Len(quoted) > 0 /\ MHD_str_unquote(quoted) = << >>

\* MHD_str_equal_quoted_bin_n(): false for a broken quoted form, else the
\* equality of the unquoted first string with the second.  A quoted form of
\* more than twice the length cannot match, as the comparison finds without
\* unquoting all of it.
MHD_str_equal_quoted_bin_n (quoted, unquoted) ==
  /\ Len(quoted) <= 2 * Len(unquoted)
  /\ ~ BrokenQuoting(quoted)
  /\ MHD_str_unquote(quoted) = unquoted

(***************************************************************************)
(* The digest algorithms                                                   *)
(***************************************************************************)

MD5_DIGEST_SIZE == 16

SHA256_DIGEST_SIZE == 32

\* MAX_DIGEST
MAX_DIGEST == SHA256_DIGEST_SIZE

\* digest_setup(): MHD_DIGEST_ALG_AUTO is resolved to SHA-256.
digest_setup (algo) == IF algo = "AUTO" THEN "SHA256" ELSE algo

\* digest_get_size()
digest_get_size (da) ==
  IF da = "MD5" THEN MD5_DIGEST_SIZE
  ELSE IF da = "SHA256" THEN SHA256_DIGEST_SIZE
  ELSE 0

\* digest_get_algo_name()
digest_get_algo_name (da) ==
  IF da = "MD5" THEN <<77, 68, 53>>
  ELSE IF da = "SHA256" THEN <<83, 72, 65, 45, 50, 53, 54>>
  ELSE << >>

\* A weighted byte sum of s[lo..hi] modulo m, by halving the range.
RECURSIVE WSum(_, _, _, _, _)
WSum (s, lo, hi, k, m) ==
  IF lo > hi THEN 0
  ELSE IF lo = hi THEN ((((lo * lo * k) + (lo * 13) + 1) % 251) * (s[lo] + k)) % m
  ELSE (WSum(s, lo, (lo + hi) \div 2, k, m)
        + WSum(s, ((lo + hi) \div 2) + 1, hi, k, m)) % m

\* The hash primitive (MHD_MD5Final / MHD_SHA256_finish over all the bytes fed
\* by the updates): an opaque function from the message to size bytes, which
\* stands for the cryptographic hash.
Digest (da, msg) ==
  LET s1 == WSum(msg, 1, Len(msg), 7, 65521)
      s2 == WSum(msg, 1, Len(msg), 3, 65519)
      s3 == (Len(msg) * 16) + (digest_get_size(da) \div 16)
  IN  [i \in 1..digest_get_size(da) |->
         CASE i = 1 -> s1 \div 256
           [] i = 2 -> s1 % 256
           [] i = 3 -> s2 \div 256
           [] i = 4 -> s2 % 256
           [] i = 5 -> s3 \div 256
           [] i = 6 -> s3 % 256
           [] OTHER -> (s1 + (i * s2) + (i * i)) % 256]

\* digest_init(), digest_update(), digest_calc_hash(): the context holds the
\* bytes fed so far; digest_make_hex() prints the digest.
digest_init == << >>

digest_update (ctx, data) == ctx \o data

digest_calc_hash (da, ctx) == Digest(da, ctx)

digest_make_hex (da, ctx) == MHD_bin_to_hex(digest_calc_hash(da, ctx))

(***************************************************************************)
(* Nonces                                                                  *)
(***************************************************************************)

\* strlen() of a character array that holds a terminating zero.
strlen (buf) ==
  IF \E i \in 1..Len(buf) : buf[i] = 0
    THEN (CHOOSE i \in 1..Len(buf) :
            buf[i] = 0 /\ \A j \in 1..(i - 1) : buf[j] /= 0) - 1
    ELSE Len(buf)

\* 0 == memcmp (buf, str, len)
memeq (buf, str, len) == \A i \in 1..len : buf[i] = str[i]

\* The C array element buf[i] (0-based).
At (buf, i) == buf[i + 1]

\* REUSE_TIMEOUT, in seconds
REUSE_TIMEOUT == 30

DAUTH_JUMPBACK_MAX == 127

\* TIMESTAMP_BIN_SIZE: 48 bit value in bytes
TIMESTAMP_BIN_SIZE == 48 \div 8

\* A difference of 64 bits; C35_DifferencesModulo48 tells it from
\* TRIM_TO_TIMESTAMP.
TRIM_TO_TIMESTAMP_none (value) == value

\* TRIM_TO_TIMESTAMP(value): the low 48 bits
TRIM_TO_TIMESTAMP (value) == <<0, value[2], value[3], value[4]>>

TIMESTAMP_CHARS_LEN == TIMESTAMP_BIN_SIZE * 2

\* NONCE_STD_LEN(digest_size)
NONCE_STD_LEN (digest_size) == (digest_size * 2) + TIMESTAMP_CHARS_LEN

\* MAX_DIGEST_NONCE_LENGTH: the slot's nonce field has one more byte.
MAX_DIGEST_NONCE_LENGTH == NONCE_STD_LEN(MAX_DIGEST)

Colon == <<58>>

\* The array timestamp[] filled from the lowest byte up; C34_NonceOfLow48
\* tells it from TimestampBytes.
TimestampBytes_low_first (nonce_time) ==
  <<nonce_time[4] % 256, nonce_time[4] \div 256,
    nonce_time[3] % 256, nonce_time[3] \div 256,
    nonce_time[2] % 256, nonce_time[2] \div 256>>

\* The array timestamp[] of calculate_nonce(): the low 48 bits, big endian.
TimestampBytes (nonce_time) ==
  <<nonce_time[2] \div 256, nonce_time[2] % 256,
    nonce_time[3] \div 256, nonce_time[3] % 256,
    nonce_time[4] \div 256, nonce_time[4] % 256>>

\* calculate_nonce(): H(timestamp ":" method ":" random ":" uri ":" realm)
\* in hexadecimal followed by the timestamp in hexadecimal.
calculate_nonce (nonce_time, method, rnd, uri, realm, da) ==
  LET timestamp == TimestampBytes(nonce_time)
      c1 == digest_update(digest_init, timestamp)
      c2 == digest_update(c1, Colon)
      c3 == digest_update(c2, method)
      c4 == digest_update(c3, Colon)
      c5 == IF Len(rnd) > 0 THEN digest_update(c4, rnd) ELSE c4
      c6 == digest_update(c5, Colon)
      c7 == digest_update(c6, uri)
      c8 == digest_update(c7, Colon)
      c9 == digest_update(c8, realm)
  IN  MHD_bin_to_hex(digest_calc_hash(da, c9)) \o MHD_bin_to_hex(timestamp)

\* get_nonce_timestamp(): the nonce must have one of the two standard lengths
\* and end in TIMESTAMP_CHARS_LEN hexadecimal digits; a length of 0 asks for
\* strlen (nonce).
get_nonce_timestamp (nonce, noncelen0) ==
  LET noncelen == IF 0 = noncelen0 THEN strlen(nonce) ELSE noncelen0
  IN  IF noncelen /= NONCE_STD_LEN(SHA256_DIGEST_SIZE)
         /\ noncelen /= NONCE_STD_LEN(MD5_DIGEST_SIZE)
        THEN [ok |-> FALSE, ts |-> U64_ZERO]
        ELSE LET r == MHD_strx_to_uint64_n_(
                        Slice(nonce, noncelen - TIMESTAMP_CHARS_LEN + 1,
                              noncelen),
                        TIMESTAMP_CHARS_LEN)
             IN  IF r.n /= TIMESTAMP_CHARS_LEN
                   THEN [ok |-> FALSE, ts |-> U64_ZERO]
                   ELSE [ok |-> TRUE, ts |-> r.val]

\* The loop of fast_simple_hash() over data[lo..hi] (1-based) from the value
\* hash: hash = _MHD_ROTL32 (hash, 7) ^ data[i].  The range is run in two
\* halves, the second from the value the first ends with (the test of hash[1]
\* only makes the evaluation of the first half precede the second).
RECURSIVE HashLoop(_, _, _, _)
HashLoop (data, lo, hi, hash) ==
  IF lo > hi \/ hash[1] < 0 THEN hash
  ELSE IF lo = hi THEN Xor32Byte(ROTL32_7(hash), data[lo])
  ELSE HashLoop(data, ((lo + hi) \div 2) + 1, hi,
                HashLoop(data, lo, (lo + hi) \div 2, hash))

\* fast_simple_hash()
fast_simple_hash (data, data_size) ==
  IF data_size /= 0 THEN HashLoop(data, 2, data_size, <<0, data[1]>>)
  ELSE <<0, 0>>

\* An index computed without the last character of the nonce;
\* C33_SlotOfHash tells it from get_nonce_nc_idx.
get_nonce_nc_idx_short (arr_size, nonce, noncelen) ==
  Mod32(fast_simple_hash(nonce, noncelen - 1), arr_size)

\* get_nonce_nc_idx()
get_nonce_nc_idx (arr_size, nonce, noncelen) ==
  Mod32(fast_simple_hash(nonce, noncelen), arr_size)

(***************************************************************************)
(* The nonce-nc map array                                                  *)
(***************************************************************************)

\* The bits of a 64-bit mask.
Bits64 == 0..63

\* A shift that leaves the mask where it was; C39_NoFalseReplay tells it from
\* Shl64.
Shl64_in_place (mask, n) == mask

\* mask << n for 0 <= n < 64: the bits shifted out of the 64 are lost.
Shl64 (mask, n) == {b + n : b \in {x \in mask : x + n <= 63}}

\* struct MHD_NonceNc after daemon initialisation: all bytes zero.
EmptySlot ==
  [nonce |-> Fill(0, MAX_DIGEST_NONCE_LENGTH + 1),
   nc    |-> U64_ZERO,
   nmask |-> {}]

\* The result codes (enum MHD_DigestAuthResult, enum MHD_CheckNonceNC_).
MHD_DAUTH_OK == "OK"

MHD_DAUTH_ERROR == "ERROR"

MHD_DAUTH_WRONG_HEADER == "WRONG_HEADER"

MHD_DAUTH_WRONG_USERNAME == "WRONG_USERNAME"

MHD_DAUTH_WRONG_REALM == "WRONG_REALM"

MHD_DAUTH_WRONG_URI == "WRONG_URI"

MHD_DAUTH_NONCE_STALE == "NONCE_STALE"

MHD_DAUTH_NONCE_WRONG == "NONCE_WRONG"

MHD_DAUTH_RESPONSE_WRONG == "RESPONSE_WRONG"

\* enum MHD_CheckNonceNC_
MHD_CHECK_NONCENC_OK == "NONCENC_OK"

MHD_CHECK_NONCENC_STALE == "NONCENC_STALE"

MHD_CHECK_NONCENC_WRONG == "NONCENC_WRONG"

\* A verifier that reports a stale nonce as a wrong one and a wrong one as a
\* stale one; C15_NonceNcPropagates tells it from nonce_nc_result.
nonce_nc_result_swapped (nonce_nc_check) ==
  IF MHD_CHECK_NONCENC_STALE = nonce_nc_check THEN MHD_DAUTH_NONCE_WRONG
  ELSE IF MHD_CHECK_NONCENC_WRONG = nonce_nc_check THEN MHD_DAUTH_NONCE_STALE
  ELSE "go"

\* digest_auth_check_all(): the result it returns with for what
\* check_nonce_nc() returned, "go" when that is MHD_CHECK_NONCENC_OK.
nonce_nc_result (nonce_nc_check) ==
  IF MHD_CHECK_NONCENC_STALE = nonce_nc_check THEN MHD_DAUTH_NONCE_STALE
  ELSE IF MHD_CHECK_NONCENC_WRONG = nonce_nc_check THEN MHD_DAUTH_NONCE_WRONG
  ELSE "go"

\* A check that calls a nonce wrong when the daemon has no array;
\* C16_NoArray tells it from check_nonce_nc_early.
check_nonce_nc_early_wrong (nonce_nc_size, noncelen, nc) ==
  IF MAX_DIGEST_NONCE_LENGTH < noncelen THEN MHD_CHECK_NONCENC_WRONG
  ELSE IF 0 = nonce_nc_size THEN MHD_CHECK_NONCENC_WRONG
  ELSE IF Le64(Sub64(UINT64_MAX, U64(64)), nc) THEN MHD_CHECK_NONCENC_STALE
  ELSE "locked"

\* check_nonce_nc() before it takes the lock: the early returns, or "locked"
\* when it goes on to the slot.
check_nonce_nc_early (nonce_nc_size, noncelen, nc) ==
  IF MAX_DIGEST_NONCE_LENGTH < noncelen THEN MHD_CHECK_NONCENC_WRONG
  ELSE IF 0 = nonce_nc_size THEN MHD_CHECK_NONCENC_STALE
  ELSE IF Le64(Sub64(UINT64_MAX, U64(64)), nc) THEN MHD_CHECK_NONCENC_STALE
  ELSE "locked"

\* The branch of check_nonce_nc() for a slot whose nonce differs from the
\* client's: the comparison of the two timestamps.
check_nonce_nc_other (nn, noncelen, nonce_time) ==
  IF 0 = At(nn.nonce, 0) THEN MHD_CHECK_NONCENC_WRONG
  ELSE IF 0 /= At(nn.nonce, noncelen) THEN MHD_CHECK_NONCENC_STALE
  ELSE LET slot == get_nonce_timestamp(nn.nonce, 0)
           ts_diff == TRIM_TO_TIMESTAMP(Sub64(nonce_time, slot.ts))
       IN  IF ~ slot.ok THEN MHD_CHECK_NONCENC_STALE
           ELSE IF Le64(ts_diff, U64(REUSE_TIMEOUT * 1000))
             THEN MHD_CHECK_NONCENC_STALE
           ELSE IF Le64(ts_diff, Half64(TRIM_TO_TIMESTAMP(UINT64_MAX)))
             THEN MHD_CHECK_NONCENC_STALE
           ELSE MHD_CHECK_NONCENC_WRONG

\* A bump that clears the mask for a jump of 64 as for the larger ones;
\* C26_BumpShiftsMask tells it from check_nonce_nc_bump.
check_nonce_nc_bump_clears_at_64 (nn, nc) ==
  LET jump_size == Sub64(nc, nn.nc)
  IN  [nn EXCEPT
         !.nmask = IF Lt64(jump_size, U64(64))
                     THEN Shl64(nn.nmask, Int64(jump_size))
                          \cup {Int64(jump_size) - 1}
                   ELSE {},
         !.nc = nc]

\* A bump that marks the new counter value itself instead of the one the
\* slot held; C31_MaskBelowNc tells it from check_nonce_nc_bump.
check_nonce_nc_bump_marks_new (nn, nc) ==
  LET jump_size == Sub64(nc, nn.nc)
  IN  [nn EXCEPT
         !.nmask = IF Lt64(jump_size, U64(64))
                     THEN Shl64(nn.nmask, Int64(jump_size))
                          \cup {Int64(jump_size)}
                   ELSE IF jump_size = U64(64) THEN {63}
                   ELSE {},
         !.nc = nc]

\* The branch of check_nonce_nc() for nc > nn->nc: shift the mask, bump nc.
check_nonce_nc_bump (nn, nc) ==
  LET jump_size == Sub64(nc, nn.nc)
  IN  [nn EXCEPT
         !.nmask = IF Lt64(jump_size, U64(64))
                     THEN Shl64(nn.nmask, Int64(jump_size))
                          \cup {Int64(jump_size) - 1}
                   ELSE IF jump_size = U64(64) THEN {63}
                   ELSE {},
         !.nc = nc]

\* A mask whose lowest bit stands for nn->nc itself; C27_OutOfOrder tells it
\* from NcBit.
NcBit_from_nc (nn, nc) == Int64(Sub64(nn.nc, nc)) % 64

\* The bit of nn->nmask that stands for nc, for nc < nn->nc.
NcBit (nn, nc) == Int64(Sub64(Sub64(nn.nc, nc), U64(1)))

\* A check_nonce_nc() that answers OK to the counter value the slot already
\* holds; C3_OneWinnerInWindow tells it from check_nonce_nc_locked.
check_nonce_nc_locked_twice (nn, nonce, noncelen, nonce_time, nc) ==
  IF ~ memeq(nn.nonce, nonce, noncelen) \/ 0 /= At(nn.nonce, noncelen)
    THEN [ret |-> check_nonce_nc_other(nn, noncelen, nonce_time), nn |-> nn]
  ELSE IF Lt64(nn.nc, nc)
    THEN [ret |-> MHD_CHECK_NONCENC_OK, nn |-> check_nonce_nc_bump(nn, nc)]
  ELSE IF Lt64(nc, nn.nc)
    THEN IF Le64(nn.nc, Add64(nc, U64(64))) /\ NcBit(nn, nc) \notin nn.nmask
           THEN [ret |-> MHD_CHECK_NONCENC_OK,
                 nn  |-> [nn EXCEPT !.nmask = @ \cup {NcBit(nn, nc)}]]
           ELSE [ret |-> MHD_CHECK_NONCENC_STALE, nn |-> nn]
  ELSE [ret |-> MHD_CHECK_NONCENC_OK, nn |-> nn]

\* A check_nonce_nc() that puts the nonce of the client into a slot that
\* holds another one; C38_VerificationFrame tells it from
\* check_nonce_nc_locked.
check_nonce_nc_locked_takes_slot (nn, nonce, noncelen, nonce_time, nc) ==
  IF ~ memeq(nn.nonce, nonce, noncelen) \/ 0 /= At(nn.nonce, noncelen)
    THEN [ret |-> check_nonce_nc_other(nn, noncelen, nonce_time),
          nn  |-> [nn EXCEPT !.nonce = [i \in 1..Len(nn.nonce) |->
                                         IF i <= noncelen THEN nonce[i]
                                         ELSE 0]]]
  ELSE IF Lt64(nn.nc, nc)
    THEN [ret |-> MHD_CHECK_NONCENC_OK, nn |-> check_nonce_nc_bump(nn, nc)]
  ELSE IF Lt64(nc, nn.nc)
    THEN IF Le64(nn.nc, Add64(nc, U64(64))) /\ NcBit(nn, nc) \notin nn.nmask
           THEN [ret |-> MHD_CHECK_NONCENC_OK,
                 nn  |-> [nn EXCEPT !.nmask = @ \cup {NcBit(nn, nc)}]]
           ELSE [ret |-> MHD_CHECK_NONCENC_STALE, nn |-> nn]
  ELSE [ret |-> MHD_CHECK_NONCENC_STALE, nn |-> nn]

\* A check_nonce_nc() that sets the counter of the slot to the value it
\* accepts out of order; C32_NcMonotone tells it from check_nonce_nc_locked.
check_nonce_nc_locked_rewinds (nn, nonce, noncelen, nonce_time, nc) ==
  IF ~ memeq(nn.nonce, nonce, noncelen) \/ 0 /= At(nn.nonce, noncelen)
    THEN [ret |-> check_nonce_nc_other(nn, noncelen, nonce_time), nn |-> nn]
  ELSE IF Lt64(nn.nc, nc)
    THEN [ret |-> MHD_CHECK_NONCENC_OK, nn |-> check_nonce_nc_bump(nn, nc)]
  ELSE IF Lt64(nc, nn.nc)
    THEN IF Le64(nn.nc, Add64(nc, U64(64))) /\ NcBit(nn, nc) \notin nn.nmask
           THEN [ret |-> MHD_CHECK_NONCENC_OK,
                 nn  |-> [nn EXCEPT !.nmask = @ \cup {NcBit(nn, nc)},
                                    !.nc = nc]]
           ELSE [ret |-> MHD_CHECK_NONCENC_STALE, nn |-> nn]
  ELSE [ret |-> MHD_CHECK_NONCENC_STALE, nn |-> nn]

\* The locked section of check_nonce_nc() on the slot nn: the result and the
\* slot afterwards.
check_nonce_nc_locked (nn, nonce, noncelen, nonce_time, nc) ==
  IF ~ memeq(nn.nonce, nonce, noncelen) \/ 0 /= At(nn.nonce, noncelen)
    THEN [ret |-> check_nonce_nc_other(nn, noncelen, nonce_time), nn |-> nn]
  ELSE IF Lt64(nn.nc, nc)
    THEN [ret |-> MHD_CHECK_NONCENC_OK, nn |-> check_nonce_nc_bump(nn, nc)]
  ELSE IF Lt64(nc, nn.nc)
    THEN IF Le64(nn.nc, Add64(nc, U64(64))) /\ NcBit(nn, nc) \notin nn.nmask
           THEN [ret |-> MHD_CHECK_NONCENC_OK,
                 nn  |-> [nn EXCEPT !.nmask = @ \cup {NcBit(nn, nc)}]]
           ELSE [ret |-> MHD_CHECK_NONCENC_STALE, nn |-> nn]
  ELSE [ret |-> MHD_CHECK_NONCENC_STALE, nn |-> nn]

\* daemon->nonce_nc_size: the number of slots of the array daemon->nnc.
nnc_size (arr) ==
  IF DOMAIN arr = {} THEN 0 ELSE Cardinality(DOMAIN arr)

\* A check_nonce_nc() without the guard against the highest counter values;
\* C28_TopNcIsStale tells it from check_nonce_nc.
check_nonce_nc_unguarded (arr, nonce_nc_size, nonce, noncelen, nonce_time, nc) ==
  IF 0 = nonce_nc_size THEN [ret |-> MHD_CHECK_NONCENC_STALE, arr |-> arr]
  ELSE With(get_nonce_nc_idx(nonce_nc_size, nonce, noncelen), LAMBDA idx :
       With(check_nonce_nc_locked(arr[idx], nonce, noncelen, nonce_time, nc),
            LAMBDA r : [ret |-> r.ret, arr |-> [arr EXCEPT ![idx] = r.nn]]))

\* check_nonce_nc() run without interruption on the array arr: the result and
\* the array afterwards.
check_nonce_nc (arr, nonce_nc_size, nonce, noncelen, nonce_time, nc) ==
  IF check_nonce_nc_early(nonce_nc_size, noncelen, nc) /= "locked"
    THEN [ret |-> check_nonce_nc_early(nonce_nc_size, noncelen, nc),
          arr |-> arr]
  ELSE With(get_nonce_nc_idx(nonce_nc_size, nonce, noncelen), LAMBDA idx :
       With(check_nonce_nc_locked(arr[idx], nonce, noncelen, nonce_time, nc),
            LAMBDA r : [ret |-> r.ret, arr |-> [arr EXCEPT ![idx] = r.nn]]))

\* A check that lets a nonce take the slot that already holds it;
\* C22_SameNonceRefused tells it from is_slot_available.
is_slot_available_same_nonce (nn, now, new_nonce, new_nonce_len) ==
  IF 0 = At(nn.nonce, 0) THEN TRUE
  ELSE IF nn.nc /= U64_ZERO THEN TRUE
  ELSE IF 0 /= At(nn.nonce, Len(nn.nonce) - 1) THEN TRUE
  ELSE LET t == get_nonce_timestamp(nn.nonce, 0)
       IN  IF ~ t.ok THEN TRUE
           ELSE Lt64(U64(REUSE_TIMEOUT * 1000),
                     TRIM_TO_TIMESTAMP(Sub64(now, t.ts)))

\* is_slot_available()
is_slot_available (nn, now, new_nonce, new_nonce_len) ==
  IF 0 = At(nn.nonce, 0) THEN TRUE
  ELSE IF memeq(nn.nonce, new_nonce, new_nonce_len)
          /\ 0 = At(nn.nonce, new_nonce_len) THEN FALSE
  ELSE IF nn.nc /= U64_ZERO THEN TRUE
  ELSE IF 0 /= At(nn.nonce, Len(nn.nonce) - 1) THEN TRUE
  ELSE LET t == get_nonce_timestamp(nn.nonce, 0)
       IN  IF ~ t.ok THEN TRUE
           ELSE Lt64(U64(REUSE_TIMEOUT * 1000),
                     TRIM_TO_TIMESTAMP(Sub64(now, t.ts)))

\* An admission that leaves the mask of the slot as it was;
\* C23_AdmissionStores tells it from calculate_add_nonce_locked.
calculate_add_nonce_locked_keeps_nmask (nn, timestamp, nonce, nonce_size) ==
  IF is_slot_available(nn, timestamp, nonce, nonce_size)
    THEN [ret |-> TRUE,
          nn  |-> [nonce |-> [i \in 1..Len(nn.nonce) |->
                                IF i <= nonce_size THEN nonce[i]
                                ELSE IF i = nonce_size + 1 THEN 0
                                ELSE nn.nonce[i]],
                   nc    |-> U64_ZERO,
                   nmask |-> nn.nmask]]
    ELSE [ret |-> FALSE, nn |-> nn]

\* The locked section of calculate_add_nonce() on the slot nn: whether the
\* nonce was stored, and the slot afterwards (memcpy, the terminating zero,
\* nc and nmask reset).
calculate_add_nonce_locked (nn, timestamp, nonce, nonce_size) ==
  IF is_slot_available(nn, timestamp, nonce, nonce_size)
    THEN [ret |-> TRUE,
          nn  |-> [nonce |-> [i \in 1..Len(nn.nonce) |->
                                IF i <= nonce_size THEN nonce[i]
                                ELSE IF i = nonce_size + 1 THEN 0
                                ELSE nn.nonce[i]],
                   nc    |-> U64_ZERO,
                   nmask |-> {}]]
    ELSE [ret |-> FALSE, nn |-> nn]

(***************************************************************************)
(* Request parameters and their unquoting                                  *)
(***************************************************************************)

\* A parameter of the Authorization header (struct MHD_RqDAuthParam): present
\* says value.str is not NULL; the value is the characters str followed by
\* fill more characters 'x' (how the long values are written down), so that
\* value.len is Len(str) + fill; str does not end in a backslash.
Param (str, quoted) ==
  [present |-> TRUE, quoted |-> quoted, str |-> str, fill |-> 0]

LongParam (str, fill, quoted) ==
  [present |-> TRUE, quoted |-> quoted, str |-> str, fill |-> fill]

NoParam == [present |-> FALSE, quoted |-> FALSE, str |-> << >>, fill |-> 0]

\* param->value.len
ValueLen (v) == Len(v.str) + v.fill

\* The characters of a value.
Chars (v) == v.str \o Fill(120, v.fill)

_MHD_STATIC_UNQ_BUFFER_SIZE == 128

_MHD_AUTH_DIGEST_MAX_PARAM_SIZE == 65536

\* The heap scratch buffer of one verification call (tmp2, tmp2_size), with
\* the number of malloc() and free() calls made for it so far.
NoHeap == [size |-> 0, live |-> FALSE, allocs |-> 0, frees |-> 0]

\* free (*ptmp2) when it is not NULL, then malloc (len): ok says whether the
\* allocation succeeded.
Realloc (heap, len, ok) ==
  [size   |-> IF ok THEN len ELSE heap.size,
   live   |-> ok,
   allocs |-> heap.allocs + (IF ok THEN 1 ELSE 0),
   frees  |-> heap.frees + (IF heap.live THEN 1 ELSE 0)]

\* get_unqouted_param(): the result code, the unquoted value, the buffer that
\* holds it ("param": the request's own bytes) and the heap scratch
\* afterwards.  malloc_ok says whether malloc() succeeds.
get_unqouted_param (param, heap, malloc_ok) ==
  IF ~ param.present
    THEN [res |-> "NO_STRING", str |-> << >>, fill |-> 0,
          buf |-> "null", heap |-> heap]
  ELSE IF ~ param.quoted
    THEN [res  |-> IF ValueLen(param) = 0 THEN "EMPTY" ELSE "NON_EMPTY",
          str  |-> param.str, fill |-> param.fill,
          buf  |-> "param", heap |-> heap]
  ELSE IF ValueLen(param) <= _MHD_STATIC_UNQ_BUFFER_SIZE
    THEN [res |-> "NON_EMPTY", str |-> MHD_str_unquote(param.str),
          fill |-> param.fill, buf |-> "tmp1", heap |-> heap]
  ELSE IF ValueLen(param) <= heap.size
    THEN [res |-> "NON_EMPTY", str |-> MHD_str_unquote(param.str),
          fill |-> param.fill, buf |-> "tmp2", heap |-> heap]
  ELSE IF ValueLen(param) > _MHD_AUTH_DIGEST_MAX_PARAM_SIZE
    THEN [res |-> "TOO_LARGE", str |-> << >>, fill |-> 0,
          buf |-> "null", heap |-> heap]
  ELSE IF ~ malloc_ok
    THEN [res |-> "OUT_OF_MEM", str |-> << >>, fill |-> 0, buf |-> "null",
          heap |-> Realloc(heap, ValueLen(param), FALSE)]
  ELSE [res |-> "NON_EMPTY", str |-> MHD_str_unquote(param.str),
        fill |-> param.fill, buf |-> "tmp2",
        heap |-> Realloc(heap, ValueLen(param), TRUE)]

\* A mapping that gives an absent parameter the code of an empty one;
\* C6_AbsentIsWrongHeader tells it from UnqFailure.
UnqFailure_absent_as_empty (res, on_empty) ==
  IF res = "NO_STRING" THEN on_empty
  ELSE IF res = "EMPTY" THEN on_empty
  ELSE IF res = "TOO_LARGE" THEN MHD_DAUTH_WRONG_HEADER
  ELSE MHD_DAUTH_ERROR

\* The mapping of a failed extraction to the result of the verification, as
\* written after each call of get_unqouted_param(); on_empty is the code the
\* caller gives to an empty string.
UnqFailure (res, on_empty) ==
  IF res = "NO_STRING" THEN MHD_DAUTH_WRONG_HEADER
  ELSE IF res = "EMPTY" THEN on_empty
  ELSE IF res = "TOO_LARGE" THEN MHD_DAUTH_WRONG_HEADER
  ELSE MHD_DAUTH_ERROR

\* is_param_equal(): the parameter, unquoted if needed, equals str.
is_param_equal (param, str) ==
  IF param.quoted
    THEN MHD_str_equal_quoted_bin_n(Chars(param), str)
    ELSE /\ Len(str) = ValueLen(param)
         /\ memeq(str, Chars(param), Len(str))

(***************************************************************************)
(* URI and argument matching                                               *)
(***************************************************************************)

\* The position of the first character c in s at or after position i, 0 if
\* there is none (strchr, memchr).
IndexFrom (s, c, i) ==
  IF \E j \in i..Len(s) : s[j] = c
    THEN CHOOSE j \in i..Len(s) : s[j] = c /\ \A k \in i..(j - 1) : s[k] /= c
    ELSE 0

\* The string a C function reads at s: the bytes before the first zero byte
\* (strcmp, strdup, and the unescape callback, which takes a char *).
CStr (s) ==
  IF IndexFrom(s, 0, 1) = 0 THEN s ELSE Slice(s, 1, IndexFrom(s, 0, 1) - 1)

\* The loop of MHD_http_unescape(), the default unescape callback: "%HH" with
\* two hexadecimal digits becomes the byte, anything else is copied.
RECURSIVE UnescapeLoop(_, _, _)
UnescapeLoop (s, i, out) ==
  IF i > Len(s) THEN out
  ELSE IF s[i] = 37 /\ i + 2 <= Len(s)
          /\ toxdigitvalue(s[i + 1]) >= 0 /\ toxdigitvalue(s[i + 2]) >= 0
    THEN UnescapeLoop(s, i + 3,
           Append(out, (toxdigitvalue(s[i + 1]) * 16) + toxdigitvalue(s[i + 2])))
    ELSE UnescapeLoop(s, i + 1, Append(out, s[i]))

\* daemon->unescape_callback
unescape_callback (s) == UnescapeLoop(s, 1, << >>)

\* MHD_unescape_plus(): every '+' becomes a space.
MHD_unescape_plus (s) == [i \in 1..Len(s) |-> IF s[i] = 43 THEN 32 ELSE s[i]]

\* One argument "key" or "key=value" as MHD_parse_arguments_() hands it to
\* the callback: has_value is FALSE for a NULL value.
ParseOneArg (arg) ==
  LET eq == IndexFrom(arg, 61, 1)
  IN  IF eq = 0
        THEN [key |-> unescape_callback(MHD_unescape_plus(arg)),
              value |-> << >>, has_value |-> FALSE]
        ELSE [key |-> unescape_callback(
                        MHD_unescape_plus(Slice(arg, 1, eq - 1))),
              value |-> unescape_callback(
                          MHD_unescape_plus(Slice(arg, eq + 1, Len(arg)))),
              has_value |-> TRUE]

\* The loop of MHD_parse_arguments_(): the arguments of "a=b&c=d" in order.
RECURSIVE ParseArgsLoop(_, _)
ParseArgsLoop (args, out) ==
  IF Len(args) = 0 THEN out
  ELSE LET amper == IndexFrom(args, 38, 1)
       IN  IF amper = 0 THEN Append(out, ParseOneArg(args))
           ELSE ParseArgsLoop(Slice(args, amper + 1, Len(args)),
                  Append(out, ParseOneArg(Slice(args, 1, amper - 1))))

MHD_parse_arguments_ (args) == ParseArgsLoop(args, << >>)

\* test_header(): the key-value pair is among the connection's headers of
\* kind MHD_GET_ARGUMENT_KIND (headers is the list of those).
test_header (headers, key, value, has_value) ==
  \E i \in 1..Len(headers) :
    /\ headers[i].key = key
    /\ Len(headers[i].value) = Len(value)
    /\ \/ ~ has_value /\ ~ headers[i].has_value
       \/ has_value /\ headers[i].has_value /\ headers[i].value = value

\* check_argument_match(): every argument of args is a GET argument of the
\* connection and the numbers agree; MHD_NO when strdup() fails.
check_argument_match (headers, args, strdup_ok) ==
  LET parsed == MHD_parse_arguments_(args)
  IN  /\ strdup_ok
      /\ \A i \in 1..Len(parsed) :
           test_header(headers, parsed[i].key, parsed[i].value,
                       parsed[i].has_value)
      /\ Len(parsed) = Len(headers)

(***************************************************************************)
(* H(A1) and the response                                                  *)
(***************************************************************************)

_MHD_MD5_TOKEN == <<77, 68, 53>>

_MHD_SHA256_TOKEN == <<83, 72, 65, 45, 50, 53, 54>>

_MHD_SESS_TOKEN == <<45, 115, 101, 115, 115>>

\* MHD_str_equal_caseless_(): equality up to the case of ASCII letters.
MHD_str_equal_caseless_ (a, b) ==
  LET lower(c) == IF c >= 65 /\ c <= 90 THEN c + 32 ELSE c
  IN  /\ Len(a) = Len(b)
      /\ \A i \in 1..Len(a) : lower(a[i]) = lower(b[i])

\* digest_calc_ha1_from_digest(): H(A1) in hexadecimal (da->digest_hex).
digest_calc_ha1_from_digest (alg, da, digest, nonce, cnonce) ==
  IF \/ MHD_str_equal_caseless_(alg, _MHD_MD5_TOKEN \o _MHD_SESS_TOKEN)
     \/ MHD_str_equal_caseless_(alg, _MHD_SHA256_TOKEN \o _MHD_SESS_TOKEN)
    THEN LET c1 == digest_update(digest_init,
                                 Slice(digest, 1, digest_get_size(da)))
             c2 == digest_update(c1, Colon)
             c3 == digest_update(c2, nonce)
             c4 == digest_update(c3, Colon)
             c5 == digest_update(c4, cnonce)
         IN  digest_make_hex(da, c5)
    ELSE MHD_bin_to_hex(Slice(digest, 1, digest_get_size(da)))

\* digest_calc_ha1_from_user(): H(username ":" realm ":" password), then as
\* digest_calc_ha1_from_digest().
digest_calc_ha1_from_user (alg, username, realm, password, nonce, cnonce, da) ==
  LET c1 == digest_update(digest_init, username)
      c2 == digest_update(c1, Colon)
      c3 == digest_update(c2, realm)
      c4 == digest_update(c3, Colon)
      c5 == digest_update(c4, password)
  IN  digest_calc_ha1_from_digest(alg, da, digest_calc_hash(da, c5),
                                  nonce, cnonce)

\* digest_calc_response(): H(A2) = H(method ":" uri), then
\* H(ha1 ":" nonce ":" [nc ":" cnonce ":" qop ":"] H(A2)) in hexadecimal.
digest_calc_response (ha1, nonce, noncecount, cnonce, qop, method, uri, da) ==
  LET a1 == digest_update(digest_init, method)
      a2 == digest_update(a1, Colon)
      a3 == digest_update(a2, uri)
      ha2 == digest_make_hex(da, a3)
      c1 == digest_update(digest_init, Slice(ha1, 1, digest_get_size(da) * 2))
      c2 == digest_update(c1, Colon)
      c3 == digest_update(c2, nonce)
      c4 == digest_update(c3, Colon)
      c5 == IF Len(qop) /= 0
              THEN digest_update(digest_update(digest_update(digest_update(
                     digest_update(digest_update(c4, noncecount), Colon),
                     cnonce), Colon), qop), Colon)
              ELSE c4
      c6 == digest_update(c5, Slice(ha2, 1, digest_get_size(da) * 2))
  IN  digest_make_hex(da, c6)

\* daemon->digest_auth_random: the seed of the nonces.
digest_auth_random == <<115, 51>>

(***************************************************************************)
(* The verification of a request                                           *)
(***************************************************************************)

MAX_AUTH_RESPONSE_LENGTH == 256

MAX_CLIENT_NONCE_LENGTH == 129

\* sizeof(qop), sizeof(nc) in digest_auth_check_all()
SizeofQop == 15

SizeofNc == 20

AUTH == <<97, 117, 116, 104>>

\* The allocation of the call that fails is named by env ("none": all
\* succeed): one of the names of the parameters, "copy" and "strdup".
malloc_ok (env, site) == env /= site

\* unquoted.len and the characters of unquoted.str
UnqLen (unq) == Len(unq.str) + unq.fill

UnqChars (unq) == unq.str \o Fill(120, unq.fill)

\* The element str[i] of a zero-terminated string (0-based).
CAt (str, i) == IF i < Len(str) THEN str[i + 1] ELSE 0

\* A comparison that finds every two strings equal; C8_HashMismatchIsWrong
\* tells it from strncmp_eq.
strncmp_eq_any (s1, s2, n) == TRUE

\* 0 == strncmp (s1, s2, n) for a zero-terminated s1 and n characters s2.
strncmp_eq (s1, s2, n) == \A i \in 0..(n - 1) : CAt(s1, i) = s2[i + 1]

\* A gate that rejects with ret, and one that lets the request go on.
Reject (ret, heap) == [ret |-> ret, heap |-> heap]

\* An expiry test that rejects the age nonce_timeout * 1000 itself;
\* C4_ValidRequestIsOK tells it from nonce_expired.
nonce_expired_early (t, nonce_time, nonce_timeout) ==
  Le64(U32to64(Mul32(U32(nonce_timeout), 1000)),
       TRIM_TO_TIMESTAMP(Sub64(t, nonce_time)))

\* The expiry test of the nonce: the product is computed in unsigned int.
nonce_expired (t, nonce_time, nonce_timeout) ==
  Lt64(U32to64(Mul32(U32(nonce_timeout), 1000)),
       TRIM_TO_TIMESTAMP(Sub64(t, nonce_time)))

\* The gates of check_username_realm_nonce with 'realm' looked at before
\* 'username'; C5_FirstFailingGate tells it from check_username_realm_nonce.
check_username_realm_nonce_realm_first (connection, da, realm, username, nonce_timeout, t, env) ==
  LET params == connection.params
      unq == get_unqouted_param(params.nonce, NoHeap, malloc_ok(env, "nonce"))
      ts == get_nonce_timestamp(UnqChars(unq), UnqLen(unq))
      noncehashexp == calculate_nonce(ts.ts, connection.method,
                                      digest_auth_random, connection.url,
                                      realm, da)
  IN  IF ~ connection.has_params THEN Reject(MHD_DAUTH_WRONG_HEADER, NoHeap)
      ELSE IF ~ params.realm.present
        THEN Reject(MHD_DAUTH_WRONG_HEADER, NoHeap)
      ELSE IF ~ is_param_equal(params.realm, realm)
        THEN Reject(MHD_DAUTH_WRONG_REALM, NoHeap)
      ELSE IF ~ params.username.present
        THEN Reject(MHD_DAUTH_WRONG_HEADER, NoHeap)
      ELSE IF ~ is_param_equal(params.username, username)
        THEN Reject(MHD_DAUTH_WRONG_USERNAME, NoHeap)
      ELSE IF unq.res /= "NON_EMPTY"
        THEN Reject(UnqFailure(unq.res, MHD_DAUTH_NONCE_WRONG), unq.heap)
      ELSE IF ~ ts.ok THEN Reject(MHD_DAUTH_NONCE_WRONG, unq.heap)
      ELSE IF nonce_expired(t, ts.ts, nonce_timeout)
        THEN Reject(MHD_DAUTH_NONCE_STALE, unq.heap)
      ELSE IF \/ ~ strncmp_eq(noncehashexp, UnqChars(unq), UnqLen(unq))
              \/ 0 /= CAt(noncehashexp, UnqLen(unq))
        THEN Reject(MHD_DAUTH_NONCE_WRONG, unq.heap)
      ELSE [ret |-> "go", heap |-> unq.heap, nonce_time |-> ts.ts,
            noncehashexp |-> noncehashexp]

\* digest_auth_check_all() from the lookup of the parameters to the check of
\* the nonce hash: the code of the gate that rejects, or "go" with the
\* nonce's timestamp and the recomputed nonce.
check_username_realm_nonce (connection, da, realm, username, nonce_timeout, t, env) ==
  LET params == connection.params
      unq == get_unqouted_param(params.nonce, NoHeap, malloc_ok(env, "nonce"))
      ts == get_nonce_timestamp(UnqChars(unq), UnqLen(unq))
      noncehashexp == calculate_nonce(ts.ts, connection.method,
                                      digest_auth_random, connection.url,
                                      realm, da)
  IN  IF ~ connection.has_params THEN Reject(MHD_DAUTH_WRONG_HEADER, NoHeap)
      ELSE IF ~ params.username.present
        THEN Reject(MHD_DAUTH_WRONG_HEADER, NoHeap)
      ELSE IF ~ is_param_equal(params.username, username)
        THEN Reject(MHD_DAUTH_WRONG_USERNAME, NoHeap)
      ELSE IF ~ params.realm.present
        THEN Reject(MHD_DAUTH_WRONG_HEADER, NoHeap)
      ELSE IF ~ is_param_equal(params.realm, realm)
        THEN Reject(MHD_DAUTH_WRONG_REALM, NoHeap)
      ELSE IF unq.res /= "NON_EMPTY"
        THEN Reject(UnqFailure(unq.res, MHD_DAUTH_NONCE_WRONG), unq.heap)
      ELSE IF ~ ts.ok THEN Reject(MHD_DAUTH_NONCE_WRONG, unq.heap)
      ELSE IF nonce_expired(t, ts.ts, nonce_timeout)
        THEN Reject(MHD_DAUTH_NONCE_STALE, unq.heap)
      ELSE IF \/ ~ strncmp_eq(noncehashexp, UnqChars(unq), UnqLen(unq))
              \/ 0 /= CAt(noncehashexp, UnqLen(unq))
        THEN Reject(MHD_DAUTH_NONCE_WRONG, unq.heap)
      ELSE [ret |-> "go", heap |-> unq.heap, nonce_time |-> ts.ts,
            noncehashexp |-> noncehashexp]

\* A test that lets a value as long as its buffer through;
\* C11_OversizeIsError tells it from buffer_too_small.
buffer_too_small_by_one (size, len) == size < len

\* sizeof(buffer) <= unquoted.len: the value and its terminating zero do not
\* fit in the buffer of the given size.
buffer_too_small (size, len) == size <= len

\* The gates of check_cnonce_qop_nc_response with the four sizes tested
\* before the value of qop and the number nc are looked at;
\* C12_ValueGatesInTurn tells it from check_cnonce_qop_nc_response.
check_cnonce_qop_nc_response_sizes_first (params, heap, env) ==
  LET u1 == get_unqouted_param(params.cnonce, heap, malloc_ok(env, "cnonce"))
      u2 == get_unqouted_param(params.qop, u1.heap, malloc_ok(env, "qop"))
      u3 == get_unqouted_param(params.nc, u2.heap, malloc_ok(env, "nc"))
      nc == UnqChars(u3)
      nci == MHD_strx_to_uint64_n_(nc, UnqLen(u3))
      u4 == get_unqouted_param(params.response, u3.heap,
                               malloc_ok(env, "response"))
  IN  IF u1.res /= "NON_EMPTY"
        THEN Reject(UnqFailure(u1.res, MHD_DAUTH_WRONG_HEADER), u1.heap)
      ELSE IF buffer_too_small(MAX_CLIENT_NONCE_LENGTH, UnqLen(u1))
        THEN Reject(MHD_DAUTH_ERROR, u1.heap)
      ELSE IF u2.res /= "NON_EMPTY"
        THEN Reject(UnqFailure(u2.res, MHD_DAUTH_WRONG_HEADER), u2.heap)
      ELSE IF buffer_too_small(SizeofQop, UnqLen(u2))
        THEN Reject(MHD_DAUTH_ERROR, u2.heap)
      ELSE IF u3.res /= "NON_EMPTY"
        THEN Reject(UnqFailure(u3.res, MHD_DAUTH_WRONG_HEADER), u3.heap)
      ELSE IF buffer_too_small(SizeofNc, UnqLen(u3))
        THEN Reject(MHD_DAUTH_ERROR, u3.heap)
      ELSE IF u4.res /= "NON_EMPTY"
        THEN Reject(UnqFailure(u4.res, MHD_DAUTH_WRONG_HEADER), u4.heap)
      ELSE IF buffer_too_small(MAX_AUTH_RESPONSE_LENGTH, UnqLen(u4))
        THEN Reject(MHD_DAUTH_ERROR, u4.heap)
      ELSE IF UnqChars(u2) /= AUTH /\ UnqChars(u2) /= << >>
        THEN Reject(MHD_DAUTH_WRONG_HEADER, u2.heap)
      ELSE IF UnqLen(u3) /= nci.n
        THEN Reject(MHD_DAUTH_WRONG_HEADER, u3.heap)
      ELSE IF nci.val = U64_ZERO THEN Reject(MHD_DAUTH_WRONG_HEADER, u3.heap)
      ELSE [ret |-> "go", heap |-> u4.heap, cnonce |-> UnqChars(u1),
            qop |-> UnqChars(u2), nc |-> nc, nci |-> nci.val,
            response |-> UnqChars(u4)]

\* digest_auth_check_all() from 'cnonce' to 'response': the code of the gate
\* that rejects, or "go" with the copies of the four values and the number nci.
check_cnonce_qop_nc_response (params, heap, env) ==
  LET u1 == get_unqouted_param(params.cnonce, heap, malloc_ok(env, "cnonce"))
      u2 == get_unqouted_param(params.qop, u1.heap, malloc_ok(env, "qop"))
      u3 == get_unqouted_param(params.nc, u2.heap, malloc_ok(env, "nc"))
      nc == UnqChars(u3)
      nci == MHD_strx_to_uint64_n_(nc, UnqLen(u3))
      u4 == get_unqouted_param(params.response, u3.heap,
                               malloc_ok(env, "response"))
  IN  IF u1.res /= "NON_EMPTY"
        THEN Reject(UnqFailure(u1.res, MHD_DAUTH_WRONG_HEADER), u1.heap)
      ELSE IF buffer_too_small(MAX_CLIENT_NONCE_LENGTH, UnqLen(u1))
        THEN Reject(MHD_DAUTH_ERROR, u1.heap)
      ELSE IF u2.res /= "NON_EMPTY"
        THEN Reject(UnqFailure(u2.res, MHD_DAUTH_WRONG_HEADER), u2.heap)
      ELSE IF buffer_too_small(SizeofQop, UnqLen(u2))
        THEN Reject(MHD_DAUTH_ERROR, u2.heap)
      ELSE IF UnqChars(u2) /= AUTH /\ UnqChars(u2) /= << >>
        THEN Reject(MHD_DAUTH_WRONG_HEADER, u2.heap)
      ELSE IF u3.res /= "NON_EMPTY"
        THEN Reject(UnqFailure(u3.res, MHD_DAUTH_WRONG_HEADER), u3.heap)
      ELSE IF buffer_too_small(SizeofNc, UnqLen(u3))
        THEN Reject(MHD_DAUTH_ERROR, u3.heap)
      ELSE IF UnqLen(u3) /= nci.n
        THEN Reject(MHD_DAUTH_WRONG_HEADER, u3.heap)
      ELSE IF nci.val = U64_ZERO THEN Reject(MHD_DAUTH_WRONG_HEADER, u3.heap)
      ELSE IF u4.res /= "NON_EMPTY"
        THEN Reject(UnqFailure(u4.res, MHD_DAUTH_WRONG_HEADER), u4.heap)
      ELSE IF buffer_too_small(MAX_AUTH_RESPONSE_LENGTH, UnqLen(u4))
        THEN Reject(MHD_DAUTH_ERROR, u4.heap)
      ELSE [ret |-> "go", heap |-> u4.heap, cnonce |-> UnqChars(u1),
            qop |-> UnqChars(u2), nc |-> nc, nci |-> nci.val,
            response |-> UnqChars(u4)]

\* The copy of the unquoted uri: buf = malloc (unquoted.len + 1) replaces the
\* heap scratch when it succeeds.
CopyUri (heap, len, ok) ==
  IF ok THEN [size   |-> len + 1,
              live   |-> TRUE,
              allocs |-> heap.allocs + 1,
              frees  |-> heap.frees + (IF heap.live THEN 1 ELSE 0)]
  ELSE heap

\* digest_auth_check_all() after the nonce-nc check: 'uri', the expected
\* response, the match of the uri and of its arguments with the connection,
\* and the comparison of the response.  The copy of the uri is handled as a
\* zero-terminated string: the callback, strcmp() and strdup() stop at its
\* first zero byte.
check_uri_response (connection, da, realm, username, password, digest, noncehashexp, vals, env) ==
  LET unq == get_unqouted_param(connection.params.uri, vals.heap,
                                malloc_ok(env, "uri"))
      ha1 == IF digest /= << >>
               THEN digest_calc_ha1_from_digest(digest_get_algo_name(da), da,
                      digest, noncehashexp, vals.cnonce)
               ELSE digest_calc_ha1_from_user(digest_get_algo_name(da),
                      username, realm, password, noncehashexp, vals.cnonce,
                      da)
      respexp == digest_calc_response(ha1, noncehashexp, vals.nc, vals.cnonce,
                   vals.qop, connection.method, UnqChars(unq), da)
      heap == CopyUri(unq.heap, UnqLen(unq), malloc_ok(env, "copy"))
      uri == UnqChars(unq)
      qmark == IndexFrom(uri, 63, 1)
      path == CStr(IF qmark /= 0 THEN Slice(uri, 1, qmark - 1) ELSE uri)
      args == IF qmark /= 0 THEN CStr(Slice(uri, qmark + 1, Len(uri)))
              ELSE << >>
  IN  IF unq.res /= "NON_EMPTY"
        THEN Reject(UnqFailure(unq.res, MHD_DAUTH_WRONG_HEADER), unq.heap)
      ELSE IF ~ malloc_ok(env, "copy") THEN Reject(MHD_DAUTH_ERROR, heap)
      ELSE IF CStr(unescape_callback(path)) /= connection.url
        THEN Reject(MHD_DAUTH_WRONG_URI, heap)
      ELSE IF ~ check_argument_match(connection.headers, args,
                                     malloc_ok(env, "strdup"))
        THEN Reject(MHD_DAUTH_WRONG_URI, heap)
      ELSE IF vals.response = respexp THEN Reject(MHD_DAUTH_OK, heap)
      ELSE Reject(MHD_DAUTH_RESPONSE_WRONG, heap)

\* A return without the final free; C37_ScratchGrowsUntilUri tells it from
\* FreeHeap.
FreeHeap_absent (heap) == heap

\* if (NULL != tmp2) free (tmp2) at the end of digest_auth_check_all()
FreeHeap (heap) ==
  [heap EXCEPT !.live = FALSE,
               !.frees = @ + (IF heap.live THEN 1 ELSE 0)]

(***************************************************************************)
(* The daemon, the connections and the requests of the model               *)
(***************************************************************************)

\* daemon->nonce_nc_size
NonceNcSize == 2

\* The realm, the user and the password of the application.
Realm == <<114, 64, 120>>

Username == <<117, 115, 101, 114>>

Password == <<112, 119>>

GET == <<71, 69, 84>>

POST == <<80, 79, 83, 84>>

\* The resources: connection->url, the GET arguments of the request line and
\* the request target as the client writes it in 'uri'.
Urls == {1, 2}

Url (u) == IF u = 1 THEN <<47, 97>> ELSE <<47, 98>>

UrlArgs (u) ==
  IF u = 1 THEN <<[key |-> <<107>>, value |-> <<118>>, has_value |-> TRUE]>>
  ELSE << >>

UrlTarget (u) == IF u = 1 THEN <<47, 97, 63, 107, 61, 118>> ELSE <<47, 98>>

\* The digest algorithm the application verifies with and challenges for.
Algo == digest_setup("MD5")

\* nonce_timeout, in seconds, as the application passes it.
NonceTimeout == 300

\* An unsigned int whose product with 1000 does not fit in 32 bits.
WrapTimeout == 4294968

\* The nonce the daemon computes for the resource u at the timestamp ts.
NonceOf (u, ts) ==
  calculate_nonce(U64(ts), GET, digest_auth_random, Url(u), Realm, Algo)

\* The first value of the clock and how far it runs while challenges are
\* sent.
T0 == 1000

MaxTicks == 1

\* The values the byte base4 of calculate_add_nonce_with_retry(), which is
\* derived from the addresses of nonce2 and of the connection, takes here.
Base4Values == {0, 1}

\* A retry without the fallback of 2 ms, which repeats the first timestamp
\* when the jitter is 0; C17_AtMostTwoAttempts tells it from retry_timestamp.
retry_timestamp_no_fallback (timestamp1, timestamp2, base4) ==
  IF timestamp1 /= timestamp2 THEN timestamp2
  ELSE timestamp2 - (base4 % (DAUTH_JUMPBACK_MAX + 1))

\* A jitter of the whole byte base4; C36_RetryTimestampDiffers tells it from
\* retry_timestamp.
retry_timestamp_whole_byte (timestamp1, timestamp2, base4) ==
  LET jumped == timestamp2 - base4
  IN  IF timestamp1 /= timestamp2 THEN timestamp2
      ELSE IF timestamp1 = jumped THEN jumped - 2
      ELSE jumped

\* timestamp2 of calculate_add_nonce_with_retry() as it is passed to the
\* second calculate_add_nonce().
retry_timestamp (timestamp1, timestamp2, base4) ==
  LET jumped == timestamp2 - (base4 % (DAUTH_JUMPBACK_MAX + 1))
  IN  IF timestamp1 /= timestamp2 THEN timestamp2
      ELSE IF timestamp1 = jumped THEN jumped - 2
      ELSE jumped

\* The values of the clock, and the timestamps nonces are computed from.
Clocks == T0..(T0 + MaxTicks)

Timestamps ==
  Clocks \cup {retry_timestamp(c, c, b) : c \in Clocks, b \in Base4Values}

\* The nonces of the runs with their slots, computed once (f @@ << >> is the
\* function f with its values enumerated).
NonceKeys == Urls \X Timestamps

NonceTable ==
  [k \in NonceKeys |->
     With(NonceOf(k[1], k[2]), LAMBDA nonce :
       [nonce |-> nonce,
        idx |-> get_nonce_nc_idx(NonceNcSize, nonce, Len(nonce))])] @@ << >>

NonceEntry (u, ts) == NonceTable[<<u, ts>>]

\* n as eight lower-case hexadecimal digits (the usual form of 'nc').
Hex8 (n) ==
  [i \in 1..8 |->
     HexChar(CASE i = 1 -> (n \div (W * 4096)) % 16
               [] i = 2 -> (n \div (W * 256)) % 16
               [] i = 3 -> (n \div (W * 16)) % 16
               [] i = 4 -> (n \div W) % 16
               [] i = 5 -> (n \div 4096) % 16
               [] i = 6 -> (n \div 256) % 16
               [] i = 7 -> (n \div 16) % 16
               [] OTHER -> n % 16)]

\* A request is described by the resource u and the timestamp ts of the nonce
\* it presents, its counter nc, and the set dev of the ways in which it
\* departs from the request an honest client sends.
Desc (u, ts, nc, dev) == [url |-> u, ts |-> ts, nc |-> nc, dev |-> dev]

Has (d, tag) == tag \in d.dev

\* The values of 'nc' honest clients use in the concurrent runs.
MaxNc == 1

\* The sequential runs: the challenges and the verifications of a run, the
\* clock values (the first one, and the two around the age nonce_timeout of
\* a nonce computed at T0), the timestamps of the nonces, and the counter
\* values (the last one is more than 64 above the first).
MaxGateChallenges == 2

MaxGateChecks == 2

GateClocks ==
  {T0, T0 + (NonceTimeout * 1000), T0 + (NonceTimeout * 1000) + 1}

GateTimestamps ==
  {T0} \cup {retry_timestamp(T0, T0, b) : b \in Base4Values}

GateNcs == {1, 2, 64 + 2}

\* The ways in which the requests of the sequential runs depart from the
\* honest one.
Deviations ==
  {{tag} : tag \in
     {"no_header", "no_username", "wrong_username", "quoted_username",
      "long_username", "no_realm", "wrong_realm", "no_nonce", "empty_nonce",
      "short_nonce", "bad_ts_nonce", "forged_nonce", "foreign_nonce",
      "quoted_nonce", "big_nonce", "huge_nonce", "no_cnonce", "empty_cnonce",
      "cnonce128", "cnonce129", "no_qop", "empty_qop", "qop_auth_int",
      "qop_upper", "qop15", "no_nc", "empty_nc", "nc_nonhex", "nc_overflow",
      "nc_zero", "nc20", "nc_top", "no_uri", "wrong_uri", "wrong_args",
      "escaped_uri", "no_response", "empty_response", "wrong_response",
      "response256", "method_post", "oom_copy", "oom_strdup",
      "timeout_wrap", "huge_cnonce", "qop14", "nc19", "response255",
      "empty_uri", "extra_arg", "missing_arg", "dup_arg", "novalue_arg",
      "nul_uri", "pct00_uri", "quoted_cnonce"}}
  \cup {{"big_nonce", "oom_nonce"}, {"wrong_username", "wrong_realm"},
        {"wrong_username", "no_realm"}, {"no_username", "wrong_realm"},
        {"wrong_username", "forged_nonce"}, {"wrong_realm", "short_nonce"},
        {"wrong_realm", "forged_nonce"}, {"wrong_realm", "no_nonce"},
        {"forged_nonce", "nc_zero"}, {"wrong_response", "escaped_uri"},
        {"qop_auth_int", "response256"}, {"nc_zero", "response256"},
        {"cnonce129", "qop_auth_int"}, {"qop_auth_int", "nc20"},
        {"qop15", "nc_zero"}, {"no_cnonce", "response256"}}

\* The requests that present the nonce of the resource u and the timestamp
\* ts: the honest ones and, for the first resource and the counter value 1,
\* the deviating ones.
GateRequestsFor (u, ts) ==
  {Desc(u, ts, nc, {}) : nc \in GateNcs}
  \cup {Desc(u, ts, 1, dev) : dev \in IF u = 1 THEN Deviations ELSE {}}

\* The requests clients send in the sequential runs: for a nonce received in
\* a challenge.
GateRequests == UNION {GateRequestsFor(n[1], n[2]) : n \in issued}

\* The requests of all the runs.
Requests ==
  {Desc(k[1], k[2], nc, {}) : k \in NonceKeys, nc \in 1..MaxNc}
  \cup UNION {GateRequestsFor(u, ts) : u \in Urls, ts \in GateTimestamps}

rq_username (d) ==
  IF Has(d, "no_username") THEN NoParam
  ELSE IF Has(d, "wrong_username") THEN Param(<<117, 115, 101, 115>>, FALSE)
  ELSE IF Has(d, "quoted_username")
    THEN Param(<<117, 92, 115, 101, 114>>, TRUE)
  ELSE IF Has(d, "long_username") THEN LongParam(Username, 300, FALSE)
  ELSE Param(Username, FALSE)

rq_realm (d) ==
  IF Has(d, "no_realm") THEN NoParam
  ELSE IF Has(d, "wrong_realm") THEN Param(<<114, 64, 121>>, FALSE)
  ELSE Param(Realm, FALSE)

\* The other hexadecimal digit for a forged hash.
Flip (c) == IF c = 48 THEN 49 ELSE 48

rq_nonce (d) ==
  With(NonceEntry(IF Has(d, "foreign_nonce") THEN 3 - d.url ELSE d.url,
                  d.ts).nonce, LAMBDA n :
    IF Has(d, "no_nonce") THEN NoParam
    ELSE IF Has(d, "empty_nonce") THEN Param(<< >>, FALSE)
    ELSE IF Has(d, "short_nonce") THEN Param(Slice(n, 2, Len(n)), FALSE)
    ELSE IF Has(d, "bad_ts_nonce")
      THEN Param(Slice(n, 1, Len(n) - 1) \o <<103>>, FALSE)
    ELSE IF Has(d, "forged_nonce")
      THEN Param(<<Flip(n[1])>> \o Slice(n, 2, Len(n)), FALSE)
    ELSE IF Has(d, "quoted_nonce") THEN Param(<<92>> \o n, TRUE)
    ELSE IF Has(d, "big_nonce") THEN LongParam(<<92>> \o n, 200, TRUE)
    ELSE IF Has(d, "huge_nonce")
      THEN LongParam(<<92>> \o n, _MHD_AUTH_DIGEST_MAX_PARAM_SIZE, TRUE)
    ELSE Param(n, FALSE))

rq_cnonce (d) ==
  IF Has(d, "no_cnonce") THEN NoParam
  ELSE IF Has(d, "empty_cnonce") THEN Param(<< >>, FALSE)
  ELSE IF Has(d, "cnonce128")
    THEN LongParam(<<99>>, MAX_CLIENT_NONCE_LENGTH - 2, FALSE)
  ELSE IF Has(d, "cnonce129")
    THEN LongParam(<<99>>, MAX_CLIENT_NONCE_LENGTH - 1, FALSE)
  ELSE IF Has(d, "huge_cnonce")
    THEN LongParam(<<92, 99>>, _MHD_AUTH_DIGEST_MAX_PARAM_SIZE, TRUE)
  ELSE IF Has(d, "quoted_cnonce")
    THEN LongParam(<<92, 99>>, _MHD_STATIC_UNQ_BUFFER_SIZE - 1, TRUE)
  ELSE Param(<<99, 49>>, FALSE)

rq_qop (d) ==
  IF Has(d, "no_qop") THEN NoParam
  ELSE IF Has(d, "empty_qop") THEN Param(<< >>, FALSE)
  ELSE IF Has(d, "qop_auth_int")
    THEN Param(AUTH \o <<45, 105, 110, 116>>, FALSE)
  ELSE IF Has(d, "qop_upper") THEN Param(<<65, 85, 84, 72>>, FALSE)
  ELSE IF Has(d, "qop15") THEN LongParam(AUTH, SizeofQop - 4, FALSE)
  ELSE IF Has(d, "qop14") THEN LongParam(AUTH, SizeofQop - 5, FALSE)
  ELSE Param(AUTH, FALSE)

rq_nc (d) ==
  IF Has(d, "no_nc") THEN NoParam
  ELSE IF Has(d, "empty_nc") THEN Param(<< >>, FALSE)
  ELSE IF Has(d, "nc_nonhex")
    THEN Param(Slice(Hex8(d.nc), 2, 8) \o <<103>>, FALSE)
  ELSE IF Has(d, "nc_overflow") THEN Param(<<49>> \o Fill(48, 16), FALSE)
  ELSE IF Has(d, "nc_zero") THEN Param(Hex8(0), FALSE)
  ELSE IF Has(d, "nc20")
    THEN Param(Fill(48, SizeofNc - 8) \o Hex8(d.nc), FALSE)
  ELSE IF Has(d, "nc19")
    THEN Param(Fill(48, SizeofNc - 9) \o Hex8(d.nc), FALSE)
  ELSE IF Has(d, "nc_top") THEN Param(Fill(102, 14) \o <<98, 102>>, FALSE)
  ELSE Param(Hex8(d.nc), FALSE)

rq_uri (d) ==
  IF Has(d, "no_uri") THEN NoParam
  ELSE IF Has(d, "empty_uri") THEN Param(<< >>, FALSE)
  ELSE IF Has(d, "extra_arg")
    THEN Param(UrlTarget(d.url) \o <<38, 120, 61, 121>>, FALSE)
  ELSE IF Has(d, "missing_arg") THEN Param(Url(d.url), FALSE)
  ELSE IF Has(d, "dup_arg")
    THEN Param(UrlTarget(d.url) \o <<38, 107, 61, 118>>, FALSE)
  ELSE IF Has(d, "novalue_arg") THEN Param(Url(d.url) \o <<63, 107>>, FALSE)
  ELSE IF Has(d, "nul_uri")
    THEN Param(Url(d.url) \o <<0, 122>>
               \o Slice(UrlTarget(d.url), 3, Len(UrlTarget(d.url))), FALSE)
  ELSE IF Has(d, "pct00_uri")
    THEN Param(Url(d.url) \o <<37, 48, 48, 122>>
               \o Slice(UrlTarget(d.url), 3, Len(UrlTarget(d.url))), FALSE)
  ELSE IF Has(d, "wrong_uri") THEN Param(<<47, 99>>, FALSE)
  ELSE IF Has(d, "wrong_args")
    THEN Param(Url(d.url) \o <<63, 107, 61, 119>>, FALSE)
  ELSE IF Has(d, "escaped_uri")
    THEN Param(<<47, 37, 54, 48 + d.url>>
               \o Slice(UrlTarget(d.url), 3, Len(UrlTarget(d.url))), FALSE)
  ELSE Param(UrlTarget(d.url), FALSE)

\* The value a client means by a parameter.
Meant (param) ==
  IF param.quoted THEN MHD_str_unquote(param.str) \o Fill(120, param.fill)
  ELSE Chars(param)

\* The response of a client that knows the password, for the values it sends.
ClientResponse (d) ==
  With(Meant(rq_nonce(d)), LAMBDA nonce :
  With(Meant(rq_cnonce(d)), LAMBDA cnonce :
    digest_calc_response(
      digest_calc_ha1_from_user(digest_get_algo_name(Algo), Username, Realm,
                                Password, nonce, cnonce, Algo),
      nonce, Meant(rq_nc(d)), cnonce, Meant(rq_qop(d)),
      IF Has(d, "method_post") THEN POST ELSE GET, Meant(rq_uri(d)), Algo)))

\* The responses of the requests of the runs, computed once.
ResponseTable ==
  [d \in {r \in Requests : r.dev \cap {"huge_nonce", "huge_cnonce"} = {}} |->
     ClientResponse(d)] @@ << >>

rq_response (d) ==
  IF Has(d, "no_response") THEN NoParam
  ELSE IF Has(d, "empty_response") THEN Param(<< >>, FALSE)
  ELSE IF d.dev \cap {"wrong_response", "huge_nonce", "huge_cnonce"} /= {}
    THEN Param(Fill(48, digest_get_size(Algo) * 2), FALSE)
  ELSE IF Has(d, "response256")
    THEN LongParam(<< >>, MAX_AUTH_RESPONSE_LENGTH, FALSE)
  ELSE IF Has(d, "response255")
    THEN LongParam(<< >>, MAX_AUTH_RESPONSE_LENGTH - 1, FALSE)
  ELSE Param(ResponseTable[d], FALSE)

\* The connection with its parsed Authorization header (struct MHD_RqDAuth).
Connection (d) ==
  [method     |-> IF Has(d, "method_post") THEN POST ELSE GET,
   url        |-> Url(d.url),
   headers    |-> UrlArgs(d.url),
   has_params |-> ~ Has(d, "no_header"),
   params     |-> [username |-> rq_username(d), realm |-> rq_realm(d),
                   nonce |-> rq_nonce(d), cnonce |-> rq_cnonce(d),
                   qop |-> rq_qop(d), nc |-> rq_nc(d), uri |-> rq_uri(d),
                   response |-> rq_response(d)]]

\* The allocation that fails during the call, and the nonce_timeout passed.
EnvOf (d) ==
  IF Has(d, "oom_nonce") THEN "nonce"
  ELSE IF Has(d, "oom_copy") THEN "copy"
  ELSE IF Has(d, "oom_strdup") THEN "strdup"
  ELSE "none"

TimeoutOf (d) == IF Has(d, "timeout_wrap") THEN WrapTimeout ELSE NonceTimeout

(***************************************************************************)
(* Concurrent challenges and verifications                                 *)
(***************************************************************************)

\* The worker threads, the challenges and the verifications a run may start.
NumThreads == 2

MaxChallenges == 3

MaxChecks == 3

Threads == 1..NumThreads

Idle == [pc |-> "idle", d |-> Desc(0, 0, 0, {}), t |-> 0, ret |-> "none"]

MHD_YES == "MHD_YES"

MHD_NO == "MHD_NO"

MHD_HTTP_UNAUTHORIZED == 401

\* No response is queued on the connection.
NoResponse == [status |-> 0, nonce |-> <<0, 0>>]

\* The response MHD_queue_auth_fail_response2() queues: the status 401 and,
\* in the WWW-Authenticate header, the nonce of the resource u and of the
\* timestamp ts.
Challenge401 (u, ts) == [status |-> MHD_HTTP_UNAUTHORIZED, nonce |-> <<u, ts>>]

\* The operation that completed last: for a challenge, rc is what
\* MHD_queue_auth_fail_response2() returned, tries the timestamps
\* calculate_add_nonce() was called with, and queued the response queued; for
\* a verification through a legacy entry point, entry is that function and
\* rc what it returned.
NoOp == [op |-> "none", d |-> Desc(0, 0, 0, {}), t |-> 0, ret |-> "none",
         check |-> "none", replay |-> FALSE, before |-> << >>, heap |-> NoHeap,
         rc |-> "none", tries |-> << >>, queued |-> NoResponse,
         entry |-> "none"]

\* The (nonce, nc) pair a request presents; the nonce is named by the
\* resource and the timestamp it was computed from.
Pair (d) == <<d.url, d.ts, d.nc>>

\* digest_auth_check_all() up to the lock of check_nonce_nc(), for the
\* request d at the clock value t: the code it returns with, or "locked" and
\* what the locked section works on.
auth_check_prelock (d, t) ==
  With(Connection(d), LAMBDA c :
  With(check_username_realm_nonce(c, Algo, Realm, Username, TimeoutOf(d),
                                  U64(t), EnvOf(d)), LAMBDA g1 :
  With(check_cnonce_qop_nc_response(c.params, g1.heap, EnvOf(d)), LAMBDA g2 :
  With(NONCE_STD_LEN(digest_get_size(Algo)), LAMBDA noncelen :
    IF g1.ret /= "go"
      THEN [ret |-> g1.ret, consulted |-> FALSE, heap |-> g1.heap,
            idx |-> 0, nonce |-> << >>, nonce_time |-> U64_ZERO,
            nci |-> U64_ZERO]
    ELSE IF g2.ret /= "go"
      THEN [ret |-> g2.ret, consulted |-> FALSE, heap |-> g2.heap,
            idx |-> 0, nonce |-> << >>, nonce_time |-> U64_ZERO,
            nci |-> U64_ZERO]
    ELSE [ret |-> check_nonce_nc_early(NonceNcSize, noncelen, g2.nci),
          consulted |-> TRUE, heap |-> g2.heap,
          idx |-> get_nonce_nc_idx(NonceNcSize, g1.noncehashexp, noncelen),
          nonce |-> g1.noncehashexp, nonce_time |-> g1.nonce_time,
          nci |-> g2.nci]))))

\* digest_auth_check_all() after check_nonce_nc() returned OK (for a request
\* that does not get that far, the code it was rejected with).
auth_check_postlock (d, t) ==
  With(Connection(d), LAMBDA c :
  With(check_username_realm_nonce(c, Algo, Realm, Username, TimeoutOf(d),
                                  U64(t), EnvOf(d)), LAMBDA g1 :
  With(check_cnonce_qop_nc_response(c.params, g1.heap, EnvOf(d)), LAMBDA g2 :
    IF g1.ret /= "go" THEN Reject(g1.ret, g1.heap)
    ELSE IF g2.ret /= "go" THEN Reject(g2.ret, g2.heap)
    ELSE check_uri_response(c, Algo, Realm, Username, Password, << >>,
                            g1.noncehashexp, g2, EnvOf(d)))))

\* The requests of honest clients: a nonce received in a challenge, for the
\* resource it was sent for, with a counter value.
HonestRequests == {Desc(n[1], n[2], nc, {}) : n \in issued, nc \in 1..MaxNc}

\* The two parts of digest_auth_check_all() for the requests and the clock
\* values of the runs, computed once.
CheckKeys ==
  ({Desc(k[1], k[2], nc, {}) : k \in NonceKeys, nc \in 1..MaxNc} \X Clocks)
  \cup ((UNION {GateRequestsFor(u, ts) : u \in Urls, ts \in GateTimestamps})
        \X GateClocks)

PrelockTable ==
  [k \in CheckKeys |-> auth_check_prelock(k[1], k[2])] @@ << >>

PostlockTable ==
  [k \in CheckKeys |-> auth_check_postlock(k[1], k[2])] @@ << >>

Prelock (d, t) == PrelockTable[<<d, t>>]

Postlock (d, t) == PostlockTable[<<d, t>>]

\* A verification that writes the slot back only when the uri, the arguments
\* and the response were found right; C13_ConsumedBeforeUri tells it from
\* digest_auth_check_all.
digest_auth_check_all_commit_last (d, t, arr) ==
  With(Prelock(d, t), LAMBDA pre :
  With(Postlock(d, t), LAMBDA post :
    IF ~ pre.consulted
      THEN [ret |-> pre.ret, arr |-> arr, heap |-> FreeHeap(pre.heap),
            check |-> "none"]
    ELSE
  With(check_nonce_nc_early(nnc_size(arr), Len(pre.nonce), pre.nci),
       LAMBDA early :
    IF early /= "locked"
      THEN [ret |-> nonce_nc_result(early), arr |-> arr,
            heap |-> FreeHeap(pre.heap), check |-> early]
    ELSE
  With(check_nonce_nc_locked(arr[pre.idx], pre.nonce, Len(pre.nonce),
                             pre.nonce_time, pre.nci), LAMBDA r :
    IF r.ret /= MHD_CHECK_NONCENC_OK
      THEN [ret |-> nonce_nc_result(r.ret),
            arr |-> [arr EXCEPT ![pre.idx] = r.nn],
            heap |-> FreeHeap(pre.heap), check |-> r.ret]
    ELSE [ret |-> post.ret,
          arr |-> IF post.ret = MHD_DAUTH_OK
                    THEN [arr EXCEPT ![pre.idx] = r.nn]
                    ELSE arr,
          heap |-> FreeHeap(post.heap), check |-> r.ret]))))

\* digest_auth_check_all() run without interruption for the request d at the
\* clock value t on the array arr of the daemon: the result, the array
\* afterwards, the heap scratch after the final free, and what
\* check_nonce_nc() returned ("none" when it was not called).
digest_auth_check_all (d, t, arr) ==
  With(Prelock(d, t), LAMBDA pre :
  With(Postlock(d, t), LAMBDA post :
    IF ~ pre.consulted
      THEN [ret |-> pre.ret, arr |-> arr, heap |-> FreeHeap(pre.heap),
            check |-> "none"]
    ELSE
  With(check_nonce_nc_early(nnc_size(arr), Len(pre.nonce), pre.nci),
       LAMBDA early :
    IF early /= "locked"
      THEN [ret |-> nonce_nc_result(early), arr |-> arr,
            heap |-> FreeHeap(pre.heap), check |-> early]
    ELSE
  With(check_nonce_nc_locked(arr[pre.idx], pre.nonce, Len(pre.nonce),
                             pre.nonce_time, pre.nci), LAMBDA r :
    IF r.ret /= MHD_CHECK_NONCENC_OK
      THEN [ret |-> nonce_nc_result(r.ret),
            arr |-> [arr EXCEPT ![pre.idx] = r.nn],
            heap |-> FreeHeap(pre.heap), check |-> r.ret]
    ELSE [ret |-> post.ret, arr |-> [arr EXCEPT ![pre.idx] = r.nn],
          heap |-> FreeHeap(post.heap), check |-> r.ret]))))

Init ==
  /\ nnc = [i \in 0..(NonceNcSize - 1) |-> EmptySlot]
  /\ nnc_lock = 0
  /\ clock = T0
  /\ th = [i \in Threads |-> Idle]
  /\ issued = {}
  /\ accepted = {}
  /\ last = NoOp
  /\ nops = [add |-> 0, check |-> 0]

\* A new connection is served by the first worker thread that is idle.
FirstIdle (i) ==
  /\ th[i].pc = "idle"
  /\ \A j \in Threads : j < i => th[j].pc /= "idle"

\* MHD_monotonic_msec_counter() advances by a millisecond.
Tick ==
  /\ clock < T0 + MaxTicks
  /\ clock' = clock + 1
  /\ UNCHANGED <<nnc, nnc_lock, th, issued, accepted, last, nops>>

\* MHD_queue_auth_fail_response2() on thread i for the resource u, up to the
\* lock of the first calculate_add_nonce(): timestamp1 is read.
queue_auth_fail_begin (i, u) ==
  /\ FirstIdle(i)
  /\ nops.add < MaxChallenges
  /\ th' = [th EXCEPT ![i] = [Idle EXCEPT !.pc = "add", !.t = clock,
                                           !.d = Desc(u, clock, 0, {})]]
  /\ nops' = [nops EXCEPT !.add = @ + 1]
  /\ UNCHANGED <<nnc, nnc_lock, clock, issued, accepted, last>>

\* A lock that does not wait for its holder; C29_SlotsUnderLock tells it
\* from mutex_lock.
mutex_lock_no_wait (i) ==
  /\ th[i].pc \in {"add", "add2", "check"}
  /\ nnc_lock' = i
  /\ th' = [th EXCEPT ![i].pc = IF @ = "add" THEN "add_locked"
                                ELSE IF @ = "add2" THEN "add2_locked"
                                ELSE "check_locked"]
  /\ UNCHANGED <<nnc, clock, issued, accepted, last, nops>>

\* MHD_mutex_lock_chk_ (&daemon->nnc_lock) in calculate_add_nonce() and in
\* check_nonce_nc().
mutex_lock (i) ==
  /\ th[i].pc \in {"add", "add2", "check"}
  /\ nnc_lock = 0
  /\ nnc_lock' = i
  /\ th' = [th EXCEPT ![i].pc = IF @ = "add" THEN "add_locked"
                                ELSE IF @ = "add2" THEN "add2_locked"
                                ELSE "check_locked"]
  /\ UNCHANGED <<nnc, clock, issued, accepted, last, nops>>

\* The locked section of calculate_add_nonce() and the unlock.  After the
\* first refusal the thread goes on to the retry; after a success, or after
\* the second refusal, the header is composed with the nonce of the first
\* attempt or, after a successful retry, of the second, and the response is
\* queued.
add_nonce_locked (i) ==
  /\ th[i].pc \in {"add_locked", "add2_locked"}
  /\ nnc_lock = i
  /\ \E d \in {th[i].d} :
     \E e \in {NonceEntry(d.url, d.ts)} :
     \E r \in {calculate_add_nonce_locked(nnc[e.idx], U64(d.ts), e.nonce,
                                          Len(e.nonce))} :
     \E sent \in {IF r.ret THEN d.ts ELSE th[i].t} :
         /\ nnc' = [nnc EXCEPT ![e.idx] = r.nn]
         /\ nnc_lock' = 0
         /\ IF ~ r.ret /\ th[i].pc = "add_locked"
              THEN /\ th' = [th EXCEPT ![i].pc = "retry"]
                   /\ UNCHANGED <<issued, last>>
              ELSE /\ th' = [th EXCEPT ![i] = Idle]
                   /\ issued' = issued \cup
                        {<<d.url, sent, IF r.ret THEN "added" ELSE "refused">>}
                   /\ last' = [NoOp EXCEPT !.op = "challenge",
                                 !.d = Desc(d.url, sent, 0, {}),
                                 !.t = clock, !.before = nnc,
                                 !.ret = IF r.ret THEN "added" ELSE "refused",
                                 !.tries = IF th[i].pc = "add_locked"
                                             THEN <<th[i].t>>
                                             ELSE <<th[i].t, d.ts>>,
                                 !.rc = MHD_YES,
                                 !.queued = Challenge401(d.url, sent)]
  /\ UNCHANGED <<clock, accepted, nops>>

\* calculate_add_nonce_with_retry() after the first refusal: timestamp2 is
\* read and, when the clock has not moved, jumped back.
add_nonce_retry (i, base4) ==
  /\ th[i].pc = "retry"
  /\ th' = [th EXCEPT ![i].pc = "add2",
                      ![i].d.ts = retry_timestamp(th[i].t, clock, base4)]
  /\ UNCHANGED <<nnc, nnc_lock, clock, issued, accepted, last, nops>>

\* The result of a verification is recorded.
Completed (d, t, ret, check, before) ==
  [NoOp EXCEPT !.op = "check", !.d = d, !.t = t, !.ret = ret,
               !.check = check, !.replay = Pair(d) \in accepted,
               !.before = before]

\* digest_auth_check_all() on thread i for the request d, up to the lock of
\* check_nonce_nc(): the clock is read; a request rejected by then is done.
auth_check_begin (i, d) ==
  /\ FirstIdle(i)
  /\ nops.check < MaxChecks
  /\ nops' = [nops EXCEPT !.check = @ + 1]
  /\ \E pre \in {Prelock(d, clock)} :
         IF pre.ret = "locked"
           THEN /\ th' = [th EXCEPT ![i] = [Idle EXCEPT !.pc = "check",
                                                        !.d = d, !.t = clock]]
                /\ UNCHANGED last
           ELSE /\ last' = IF pre.consulted
                             THEN Completed(d, 0, nonce_nc_result(pre.ret),
                                            pre.ret, << >>)
                             ELSE Completed(d, 0, pre.ret, "none", << >>)
                /\ UNCHANGED th
  /\ UNCHANGED <<nnc, nnc_lock, clock, issued, accepted>>

\* The locked section of check_nonce_nc(), the unlock, and the rest of
\* digest_auth_check_all().
check_nonce_nc_locked_step (i) ==
  /\ th[i].pc = "check_locked"
  /\ nnc_lock = i
  /\ \E d \in {th[i].d} :
     \E pre \in {Prelock(d, th[i].t)} :
     \E r \in {check_nonce_nc_locked(nnc[pre.idx], pre.nonce, Len(pre.nonce),
                                     pre.nonce_time, pre.nci)} :
     \E ret \in {IF r.ret = MHD_CHECK_NONCENC_OK
                    THEN Postlock(d, th[i].t).ret
                    ELSE nonce_nc_result(r.ret)} :
         /\ nnc' = [nnc EXCEPT ![pre.idx] = r.nn]
         /\ accepted' = IF r.ret = MHD_CHECK_NONCENC_OK
                          THEN accepted \cup {Pair(d)}
                          ELSE accepted
         /\ last' = Completed(d, 0, ret, r.ret, << >>)
  /\ nnc_lock' = 0
  /\ th' = [th EXCEPT ![i] = Idle]
  /\ UNCHANGED <<clock, issued, nops>>

Next ==
  \/ Tick
  \/ \E i \in Threads, u \in Urls : queue_auth_fail_begin(i, u)
  \/ \E i \in Threads : mutex_lock(i)
  \/ \E i \in Threads : add_nonce_locked(i)
  \/ \E i \in Threads, base4 \in Base4Values : add_nonce_retry(i, base4)
  \/ \E i \in Threads, d \in HonestRequests : auth_check_begin(i, d)
  \/ \E i \in Threads : check_nonce_nc_locked_step(i)

Spec == Init /\ [][Next]_vars

(***************************************************************************)
(* Replay defence across admissions and verifications (specification Spec) *)
(***************************************************************************)

\* C1: for any (nonce, nc) pair, over every interleaving of admissions and
\* verifications, at most one verification of the pair passes the nonce-nc
\* check with OK: a verification of a pair that already passed does not get
\* OK from check_nonce_nc().
C1_PairPassesAtMostOnce ==
  (last.op = "check" /\ last.replay) => last.check /= MHD_CHECK_NONCENC_OK

\* A pair that already passed the nonce-nc check passes it again.
C1_PairPassesTwice ==
  /\ last.op = "check"
  /\ last.replay
  /\ last.check = MHD_CHECK_NONCENC_OK
  /\ Pair(last.d) \in accepted

\* C2: after a verification of (nonce, nc) passed the nonce-nc check, every
\* later verification of the same pair within the nonce timeout fails with
\* NONCE_STALE, never OK and never NONCE_WRONG.
C2_ReplayIsStale ==
  (last.op = "check" /\ last.replay) => last.ret = MHD_DAUTH_NONCE_STALE

\* A replayed pair is answered NONCE_WRONG: its slot went to a nonce with a
\* later timestamp.
C2_ReplayIsWrong ==
  /\ last.op = "check"
  /\ last.replay
  /\ last.ret = MHD_DAUTH_NONCE_WRONG

(***************************************************************************)
(* Threads racing in check_nonce_nc() on one pair (specification SpecRace) *)
(***************************************************************************)

NumRaceThreads == 3

MaxRaceNc == 3

RaceThreads == 1..NumRaceThreads

\* The counter values verified for the nonce before the race, in order.
RaceHistories ==
  {<< >>, <<1>>, <<2>>, <<1, 2>>, <<3>>, <<MaxRaceNc + 63>>,
   <<MaxRaceNc + 64>>, <<2, MaxRaceNc + 64>>}

\* The pair of the race: a counter value, or the value 2^64 - 65.
RaceRequests ==
  {Desc(1, T0, nc, {}) : nc \in 1..MaxRaceNc} \cup {Desc(1, T0, 0, {"nc_top"})}

\* The nc argument of check_nonce_nc() for the request d, as line 1676
\* parses it.
RaceNci (d) ==
  MHD_strx_to_uint64_n_(Chars(rq_nc(d)), ValueLen(rq_nc(d))).val

\* The array after the nonce of e was admitted at T0 into the empty array.
RaceAdmitted (e) ==
  [i \in 0..(NonceNcSize - 1) |->
     IF i = e.idx
       THEN calculate_add_nonce_locked(EmptySlot, U64(T0), e.nonce,
                                       Len(e.nonce)).nn
       ELSE EmptySlot]

\* The array after check_nonce_nc() ran for the counter values of h.
RECURSIVE RaceAfter(_, _, _)
RaceAfter (arr, e, h) ==
  IF h = << >> THEN arr
  ELSE RaceAfter(check_nonce_nc(arr, NonceNcSize, e.nonce, Len(e.nonce),
                                U64(T0), U64(Head(h))).arr, e, Tail(h))

RaceInit ==
  \E h \in RaceHistories, d \in RaceRequests :
    /\ \A k \in 1..Len(h) : h[k] /= d.nc
    /\ nnc = RaceAfter(RaceAdmitted(NonceEntry(d.url, d.ts)),
                       NonceEntry(d.url, d.ts), h)
    /\ nnc_lock = 0
    /\ clock = T0
    /\ th = [i \in RaceThreads |-> [Idle EXCEPT !.pc = "start", !.d = d,
                                                !.t = T0]]
    /\ issued = {<<d.url, d.ts, "added">>}
    /\ accepted = {<<d.url, d.ts, h[k]>> : k \in 1..Len(h)}
    /\ last = NoOp
    /\ nops = [add |-> 1, check |-> Len(h)]

\* check_nonce_nc() on thread i up to the lock: the early returns.
check_nonce_nc_begin (i) ==
  /\ th[i].pc = "start"
  /\ LET e == NonceEntry(th[i].d.url, th[i].d.ts)
         early == check_nonce_nc_early(NonceNcSize, Len(e.nonce),
                                       RaceNci(th[i].d))
     IN  th' = [th EXCEPT ![i].pc = IF early = "locked" THEN "check"
                                    ELSE "done",
                          ![i].ret = IF early = "locked" THEN @ ELSE early]
  /\ UNCHANGED <<nnc, nnc_lock, clock, issued, accepted, last, nops>>

\* The locked section of check_nonce_nc() on thread i, and the unlock.
check_nonce_nc_end (i) ==
  /\ th[i].pc = "check_locked"
  /\ nnc_lock = i
  /\ LET d == th[i].d
         e == NonceEntry(d.url, d.ts)
         r == check_nonce_nc_locked(nnc[e.idx], e.nonce, Len(e.nonce),
                                    U64(d.ts), RaceNci(d))
     IN  /\ nnc' = [nnc EXCEPT ![e.idx] = r.nn]
         /\ th' = [th EXCEPT ![i].pc = "done", ![i].ret = r.ret]
         /\ accepted' = IF r.ret = MHD_CHECK_NONCENC_OK
                          THEN accepted \cup {Pair(d)}
                          ELSE accepted
         /\ last' = Completed(d, 0, r.ret, r.ret, << >>)
  /\ nnc_lock' = 0
  /\ UNCHANGED <<clock, issued, nops>>

RaceNext ==
  \/ \E i \in RaceThreads : check_nonce_nc_begin(i)
  \/ \E i \in RaceThreads : mutex_lock(i)
  \/ \E i \in RaceThreads : check_nonce_nc_end(i)

SpecRace == RaceInit /\ [][RaceNext]_vars

\* Every thread of the race has returned from check_nonce_nc().
RaceDone == \A i \in DOMAIN th : th[i].pc = "done"

\* The threads of the race that got OK.
RaceWinners == {i \in DOMAIN th : th[i].ret = MHD_CHECK_NONCENC_OK}

\* Exactly one thread got OK and each other one got STALE.
RaceOneWinner ==
  /\ Cardinality(RaceWinners) = 1
  /\ \A i \in DOMAIN th \ RaceWinners : th[i].ret = MHD_CHECK_NONCENC_STALE

\* The counter value of the race is below 2^64 - 65 and at most 64 below
\* every counter value verified for the nonce before.
RaceInWindow ==
  \A i \in DOMAIN th :
    /\ ~ Has(th[i].d, "nc_top")
    /\ \A p \in accepted :
         (p[1] = th[i].d.url /\ p[2] = th[i].d.ts) => p[3] <= th[i].d.nc + 64

\* C3 (as amended): when k >= 2 threads concurrently run check_nonce_nc() with
\* the same (nonce, nc), the nonce registered in its slot, nc not yet
\* consumed, below 2^64 - 65 and not more than 64 below the highest counter
\* value seen for the nonce, and no admission runs concurrently, exactly one
\* thread gets OK and each other thread gets STALE.
C3_OneWinnerInWindow == (RaceDone /\ RaceInWindow) => RaceOneWinner

\* The race is over for a pair inside the window, after an earlier
\* verification with a higher counter value: one winner.
C3_RaceWon ==
  /\ RaceDone
  /\ RaceInWindow
  /\ RaceOneWinner
  /\ \E p \in accepted : p[3] > th[1].d.nc

\* C3 (as stated): with the nonce registered and nc not yet consumed, exactly
\* one of the racing threads gets OK and each other one gets STALE.
C3_OneWinner == RaceDone => RaceOneWinner

(***************************************************************************)
(* Sequential challenges and verifications (specification SpecGates)       *)
(***************************************************************************)

\* calculate_add_nonce_with_retry() run without interruption for the resource
\* u on the array arr, the clock reading timestamp1 and then timestamp2:
\* whether a nonce was stored, the array afterwards, the timestamp of the
\* nonce that is left in the buffer of the caller, and the timestamps
\* calculate_add_nonce() was called with.
calculate_add_nonce_with_retry (arr, u, timestamp1, timestamp2, base4) ==
  IF 0 = nnc_size(arr)
    THEN [ret |-> FALSE, arr |-> arr, ts |-> timestamp1,
          tries |-> <<timestamp1>>]
  ELSE
  With(NonceEntry(u, timestamp1), LAMBDA e1 :
  With(calculate_add_nonce_locked(arr[e1.idx], U64(timestamp1), e1.nonce,
                                  Len(e1.nonce)), LAMBDA r1 :
  With(retry_timestamp(timestamp1, timestamp2, base4), LAMBDA ts2 :
  With(NonceEntry(u, ts2), LAMBDA e2 :
  With(calculate_add_nonce_locked(arr[e2.idx], U64(ts2), e2.nonce,
                                  Len(e2.nonce)), LAMBDA r2 :
    IF r1.ret
      THEN [ret |-> TRUE, arr |-> [arr EXCEPT ![e1.idx] = r1.nn],
            ts |-> timestamp1, tries |-> <<timestamp1>>]
    ELSE IF r2.ret
      THEN [ret |-> TRUE, arr |-> [arr EXCEPT ![e2.idx] = r2.nn],
            ts |-> ts2, tries |-> <<timestamp1, ts2>>]
    ELSE [ret |-> FALSE, arr |-> arr, ts |-> timestamp1,
          tries |-> <<timestamp1, ts2>>])))))

\* MHD_monotonic_msec_counter() advances to a later value.
GateTick ==
  /\ \E c \in GateClocks : c > clock /\ clock' = c
  /\ UNCHANGED <<nnc, nnc_lock, th, issued, accepted, last, nops>>

\* What goes wrong in a call of MHD_queue_auth_fail_response2(): nothing, the
\* application passes no response, or MHD_calloc_() of the header fails.
ChallengeEnvs == {"none", "no_response", "oom_header"}

\* MHD_queue_auth_fail_response2() for the resource u: refused without a
\* response or without an array; else a nonce is computed, admitted if its
\* slot allows, written in the WWW-Authenticate header of the response, and
\* the response is queued with the status 401.
MHD_queue_auth_fail_response2 (u, base4, env) ==
  /\ nops.add < MaxGateChallenges
  /\ clock \in Clocks
  /\ IF env = "no_response" \/ 0 = nnc_size(nnc)
       THEN /\ last' = [NoOp EXCEPT !.op = "challenge", !.t = clock,
                          !.d = Desc(u, clock, 0, {env} \ {"none"}),
                          !.before = nnc, !.rc = MHD_NO]
            /\ UNCHANGED <<nnc, issued>>
       ELSE \E r \in {calculate_add_nonce_with_retry(nnc, u, clock, clock,
                                                      base4)} :
              /\ nnc' = r.arr
              /\ issued' = IF env = "oom_header" THEN issued
                           ELSE issued \cup
                             {<<u, r.ts,
                                IF r.ret THEN "added" ELSE "refused">>}
              /\ last' = [NoOp EXCEPT !.op = "challenge", !.t = clock,
                            !.d = Desc(u, r.ts, 0, {env} \ {"none"}),
                            !.before = nnc,
                            !.ret = IF r.ret THEN "added" ELSE "refused",
                            !.tries = r.tries,
                            !.rc = IF env = "oom_header" THEN MHD_NO
                                   ELSE MHD_YES,
                            !.queued = IF env = "oom_header" THEN NoResponse
                                       ELSE Challenge401(u, r.ts)]
  /\ nops' = [nops EXCEPT !.add = @ + 1]
  /\ UNCHANGED <<nnc_lock, clock, th, accepted>>

\* MHD_digest_auth_check3() for the request d.
MHD_digest_auth_check3 (d) ==
  /\ nops.check < MaxGateChecks
  /\ \E r \in {digest_auth_check_all(d, clock, nnc)} :
         /\ nnc' = r.arr
         /\ accepted' = IF r.check = MHD_CHECK_NONCENC_OK
                          THEN accepted \cup {Pair(d)}
                          ELSE accepted
         /\ last' = [Completed(d, clock, r.ret, r.check, nnc)
                       EXCEPT !.heap = r.heap]
  /\ nops' = [nops EXCEPT !.check = @ + 1]
  /\ UNCHANGED <<nnc_lock, clock, th, issued>>

GateNext ==
  \/ GateTick
  \/ \E u \in Urls, base4 \in Base4Values, env \in ChallengeEnvs :
       MHD_queue_auth_fail_response2(u, base4, env)
  \/ \E d \in GateRequests : MHD_digest_auth_check3(d)

\* The daemon after its start: the array has NonceNcSize slots, all zeroed
\* (Init), or no slot (MHD_OPTION_NONCE_NC_SIZE of 0), and a client may still
\* hold a nonce that an earlier run of the daemon, started with the same
\* random seed, sent for the first resource at T0.
GateInit ==
  /\ nnc \in {[i \in 0..(n - 1) |-> EmptySlot] : n \in {0, NonceNcSize}}
  /\ nnc_lock = 0
  /\ clock = T0
  /\ th = [i \in Threads |-> Idle]
  /\ issued \in {{}, {<<1, T0, "added">>}}
  /\ accepted = {}
  /\ last = NoOp
  /\ nops = [add |-> 0, check |-> 0]

SpecGates == GateInit /\ [][GateNext]_vars

(***************************************************************************)
(* The gates of the verifier (specification SpecGates)                     *)
(***************************************************************************)

\* The last step was a verification; the ways its request deviates; the age
\* (now - t) mod 2^48 of its nonce, which is now - t here.
Checked == last.op = "check"

Dev == last.d.dev

Age == last.t - last.d.ts

\* age > seconds * 1000, without the product.
OlderThan (age, seconds) == (age + 999) \div 1000 > seconds

\* The deviations that fail the username gate, the realm gate, the format of
\* the nonce and the hash of the nonce, and the ones that leave every value
\* of the request valid.
UsernameTags == {"no_username", "wrong_username", "long_username"}

RealmTags == {"no_realm", "wrong_realm"}

FormatTags ==
  {"no_nonce", "empty_nonce", "short_nonce", "bad_ts_nonce", "big_nonce",
   "huge_nonce"}

HashTags == {"forged_nonce", "foreign_nonce", "method_post"}

BenignTags ==
  {"quoted_username", "quoted_nonce", "cnonce128", "nc19", "escaped_uri",
   "quoted_cnonce"}

\* The request of the last verification came with Digest parameters, passed
\* the username gate, the realm gate, and carried a well-formed nonce.
ReachesUsername == Checked /\ "no_header" \notin Dev

PassesUsername == ReachesUsername /\ Dev \cap UsernameTags = {}

PassesRealm == PassesUsername /\ Dev \cap RealmTags = {}

WellFormedNonce ==
  PassesRealm /\ Dev \cap FormatTags = {} /\ "oom_nonce" \notin Dev

\* The nonce of the resource u and the timestamp ts is held in its slot of arr.
Held (arr, u, ts) ==
  LET e == NonceEntry(u, ts)
  IN  /\ e.idx \in DOMAIN arr
      /\ memeq(arr[e.idx].nonce, e.nonce, Len(e.nonce))
      /\ 0 = At(arr[e.idx].nonce, Len(e.nonce))

\* No counter value verified for the nonce of d is more than 64 above d's.
InWindow (d) ==
  \A p \in accepted : (p[1] = d.url /\ p[2] = d.ts) => p[3] <= d.nc + 64

\* The result the claim C4 gives to a request whose every value is valid.
ValidResult ==
  IF "wrong_response" \in Dev THEN MHD_DAUTH_RESPONSE_WRONG ELSE MHD_DAUTH_OK

UsernameCode (dev) ==
  IF "no_username" \in dev THEN MHD_DAUTH_WRONG_HEADER
  ELSE MHD_DAUTH_WRONG_USERNAME

RealmCode (dev) ==
  IF "no_realm" \in dev THEN MHD_DAUTH_WRONG_HEADER
  ELSE MHD_DAUTH_WRONG_REALM

FormatCode (dev) ==
  IF "no_nonce" \in dev \/ "huge_nonce" \in dev THEN MHD_DAUTH_WRONG_HEADER
  ELSE IF "oom_nonce" \in dev THEN MHD_DAUTH_ERROR
  ELSE MHD_DAUTH_NONCE_WRONG

\* The code of the first gate, in the order username, realm, nonce format,
\* nonce expiry, nonce hash, that the request fails ("none": it passes all).
FirstGateCode (dev, age) ==
  IF dev \cap UsernameTags /= {} THEN UsernameCode(dev)
  ELSE IF dev \cap RealmTags /= {} THEN RealmCode(dev)
  ELSE IF dev \cap FormatTags /= {} THEN FormatCode(dev)
  ELSE IF OlderThan(age, NonceTimeout) THEN MHD_DAUTH_NONCE_STALE
  ELSE IF dev \cap HashTags /= {} THEN MHD_DAUTH_NONCE_WRONG
  ELSE "none"

\* C5: the verifier evaluates the gates in the order username, realm, nonce
\* format, nonce expiry, nonce hash and returns the code of the first gate
\* that fails, without consulting the nonce-nc table.
C5_FirstFailingGate ==
  ( /\ ReachesUsername
    /\ "timeout_wrap" \notin Dev
    /\ FirstGateCode(Dev, Age) /= "none" )
  => (last.ret = FirstGateCode(Dev, Age) /\ last.check = "none")

\* A request with a wrong username and a wrong realm is answered
\* WRONG_USERNAME.
C5_UsernameBeforeRealm ==
  /\ Checked
  /\ Dev = {"wrong_username", "wrong_realm"}
  /\ last.ret = MHD_DAUTH_WRONG_USERNAME

\* C6 (as amended): in a Digest request an absent username, an absent realm
\* (after a matching username) and an absent nonce (after a matching realm)
\* each yield WRONG_HEADER; an empty, wrong-length or timestamp-unparsable
\* nonce yields NONCE_WRONG.
C6_AbsentIsWrongHeader ==
  /\ (ReachesUsername /\ "no_username" \in Dev)
       => last.ret = MHD_DAUTH_WRONG_HEADER
  /\ (PassesUsername /\ "no_realm" \in Dev)
       => last.ret = MHD_DAUTH_WRONG_HEADER
  /\ (PassesRealm /\ "no_nonce" \in Dev)
       => last.ret = MHD_DAUTH_WRONG_HEADER
  /\ ( /\ PassesRealm
       /\ "oom_nonce" \notin Dev
       /\ Dev \cap {"empty_nonce", "short_nonce", "bad_ts_nonce",
                    "big_nonce"} /= {} )
       => last.ret = MHD_DAUTH_NONCE_WRONG

\* A request without a nonce parameter is answered WRONG_HEADER.
C6_AbsentNonce ==
  /\ PassesRealm
  /\ "no_nonce" \in Dev
  /\ last.ret = MHD_DAUTH_WRONG_HEADER

\* C6 (as stated): an absent username yields WRONG_USERNAME, an absent realm
\* WRONG_REALM, and an absent, empty, wrong-length or timestamp-unparsable
\* nonce NONCE_WRONG.
C6_AbsentIsMismatch ==
  /\ (ReachesUsername /\ "no_username" \in Dev)
       => last.ret = MHD_DAUTH_WRONG_USERNAME
  /\ (PassesUsername /\ "no_realm" \in Dev)
       => last.ret = MHD_DAUTH_WRONG_REALM
  /\ ( /\ PassesRealm
       /\ Dev \cap {"no_nonce", "empty_nonce", "short_nonce",
                    "bad_ts_nonce"} /= {} )
       => last.ret = MHD_DAUTH_NONCE_WRONG

\* The verification was rejected by the expiry gate: NONCE_STALE before the
\* nonce-nc table was consulted.
RejectedByExpiry ==
  last.ret = MHD_DAUTH_NONCE_STALE /\ last.check = "none"

\* C7: for a request that passes the username and realm gates with a
\* well-formed nonce of timestamp t, verification at the clock value now
\* returns NONCE_STALE when (now - t) mod 2^48 > nonce_timeout * 1000 and is
\* not rejected by the expiry gate otherwise.
C7_ExpiryBoundary ==
  WellFormedNonce =>
    IF OlderThan(Age, TimeoutOf(last.d))
      THEN last.ret = MHD_DAUTH_NONCE_STALE
      ELSE ~ RejectedByExpiry

\* A nonce younger than nonce_timeout is rejected by the expiry gate.
C7_YoungNonceStale ==
  /\ WellFormedNonce
  /\ ~ OlderThan(Age, TimeoutOf(last.d))
  /\ RejectedByExpiry

\* C8: a nonce that passed the expiry gate but differs from the nonce
\* recomputed from its timestamp and the request's method, url and realm
\* yields NONCE_WRONG and leaves the nonce-nc table unchanged; a nonce issued
\* for one method or url is never accepted on another.
C8_HashMismatchIsWrong ==
  /\ ( /\ WellFormedNonce
       /\ Dev \cap HashTags /= {}
       /\ "timeout_wrap" \notin Dev
       /\ ~ OlderThan(Age, NonceTimeout) )
     => /\ last.ret = MHD_DAUTH_NONCE_WRONG
        /\ last.check = "none"
        /\ nnc = last.before
  /\ (Checked /\ Dev \cap HashTags /= {}) => last.ret /= MHD_DAUTH_OK

\* The nonce a challenge for GET admitted, still in its slot, is presented
\* with POST and answered NONCE_WRONG.
C8_OtherMethod ==
  /\ Checked
  /\ Dev = {"method_post"}
  /\ Held(last.before, last.d.url, last.d.ts)
  /\ last.ret = MHD_DAUTH_NONCE_WRONG

\* C9: a request whose qop is the empty string and which is otherwise valid
\* is not rejected for its qop, while "auth-int" and "AUTH" yield
\* WRONG_HEADER.
C9_EmptyQopAccepted ==
  /\ (Checked /\ Dev = {"empty_qop"}) => last.ret /= MHD_DAUTH_WRONG_HEADER
  /\ ( /\ Checked
       /\ Dev \in {{"qop_auth_int"}, {"qop_upper"}}
       /\ ~ OlderThan(Age, NonceTimeout) )
     => last.ret = MHD_DAUTH_WRONG_HEADER

\* An otherwise valid request with an empty qop is answered WRONG_HEADER
\* before the nonce-nc table is consulted.
C9_EmptyQopRejected ==
  /\ Checked
  /\ Dev = {"empty_qop"}
  /\ Held(last.before, last.d.url, last.d.ts)
  /\ last.ret = MHD_DAUTH_WRONG_HEADER
  /\ last.check = "none"

NonceGatesPass ==
  /\ ReachesUsername
  /\ Dev \cap {"timeout_wrap", "oom_nonce"} = {}
  /\ FirstGateCode(Dev, Age) = "none"

\* The deviations that fail the gates of cnonce, of qop, of nc and of
\* response, and among them the ones that exceed a buffer.
CnonceTags == {"no_cnonce", "empty_cnonce", "cnonce129", "huge_cnonce"}

QopTags == {"no_qop", "qop_auth_int", "qop_upper", "qop15", "qop14"}

NcTags ==
  {"no_nc", "empty_nc", "nc_nonhex", "nc_overflow", "nc_zero", "nc20"}

ResponseTags == {"no_response", "empty_response", "response256"}

OversizeTags == {"cnonce129", "qop15", "nc20", "response256"}

\* The deviations of dev that concern the first of cnonce, qop, nc and
\* response that fails its gates.
FirstValueTags (dev) ==
  IF dev \cap CnonceTags /= {} THEN dev \cap CnonceTags
  ELSE IF dev \cap QopTags /= {} THEN dev \cap QopTags
  ELSE IF dev \cap NcTags /= {} THEN dev \cap NcTags
  ELSE dev \cap ResponseTags

\* C11 (as amended): after the nonce gates pass, with cnonce, qop, nc and
\* response examined in this order and each one only when those before it
\* passed their gates, a cnonce longer than 128 bytes, a qop longer than 14,
\* an nc longer than 19 or a response longer than 255 yields INTERNAL_ERROR
\* before the nonce-nc table is consulted, except that a quoted value of more
\* than 65536 bytes yields WRONG_HEADER; a value within these caps is not
\* rejected for its size.
C11_OversizeIsError ==
  /\ ( /\ NonceGatesPass
       /\ "empty_qop" \notin Dev
       /\ FirstValueTags(Dev) \cap OversizeTags /= {} )
     => (last.ret = MHD_DAUTH_ERROR /\ last.check = "none")
  /\ (NonceGatesPass /\ "huge_cnonce" \in Dev)
     => last.ret = MHD_DAUTH_WRONG_HEADER
  /\ ( /\ NonceGatesPass
       /\ Dev \in {{"cnonce128"}, {"qop14"}, {"nc19"}, {"response255"}} )
     => last.ret /= MHD_DAUTH_ERROR

\* A request with an nc of 20 digits, for a nonce held in its slot, is
\* answered INTERNAL_ERROR.
C11_LongNcIsError ==
  /\ NonceGatesPass
  /\ Dev = {"nc20"}
  /\ Held(last.before, last.d.url, last.d.ts)
  /\ last.ret = MHD_DAUTH_ERROR

\* C11 (as stated): after the nonce gates pass, a cnonce longer than 128
\* bytes, a qop longer than 14, an nc longer than 19 or a response longer
\* than 255 yields INTERNAL_ERROR, and a value within these caps is not
\* rejected for its size.
C11_OversizeIsErrorAsStated ==
  /\ (NonceGatesPass /\ Dev \cap (OversizeTags \cup {"huge_cnonce"}) /= {})
     => last.ret = MHD_DAUTH_ERROR
  /\ ( /\ NonceGatesPass
       /\ Dev \in {{"cnonce128"}, {"qop14"}, {"nc19"}, {"response255"}} )
     => last.ret /= MHD_DAUTH_ERROR

\* The code of the first of the gates of cnonce, qop, nc and response, each
\* with its size tested before its value, that the request fails ("none": it
\* passes all).
ValueGateCode (dev) ==
  IF FirstValueTags(dev) = {} THEN "none"
  ELSE IF FirstValueTags(dev) \cap OversizeTags /= {} THEN MHD_DAUTH_ERROR
  ELSE MHD_DAUTH_WRONG_HEADER

\* C12 (as amended): cnonce, qop, nc and response are extracted, tested for
\* size and validated one after the other, in this order, and the first test
\* that fails gives the result: the size of qop is tested before its value,
\* the size of nc before it is parsed, and the size of response after both,
\* so that a request with an unsupported qop value or with nc=0 and with a
\* response of 256 or more bytes yields WRONG_HEADER, while an unsupported
\* qop value after a cnonce of 129 bytes yields INTERNAL_ERROR.
C12_ValueGatesInTurn ==
  ( /\ NonceGatesPass
    /\ "empty_qop" \notin Dev
    /\ ValueGateCode(Dev) /= "none" )
  => (last.ret = ValueGateCode(Dev) /\ last.check = "none")

\* A request with qop "auth-int" and a response of 256 bytes is answered
\* WRONG_HEADER.
C12_QopBeforeResponseSize ==
  /\ NonceGatesPass
  /\ Dev = {"qop_auth_int", "response256"}
  /\ last.ret = MHD_DAUTH_WRONG_HEADER

\* C12 (as stated): the sizes of cnonce, qop, nc and response are tested
\* before the value of qop is validated and before nc is parsed: a request
\* with an unsupported qop value or with nc=0 and with a response of 256 or
\* more bytes yields INTERNAL_ERROR.
C12_SizesFirst ==
  ( /\ NonceGatesPass
    /\ Dev \in {{"qop_auth_int", "response256"}, {"nc_zero", "response256"}} )
  => last.ret = MHD_DAUTH_ERROR

\* The request with the (nonce, nc) of the last verification and every value
\* valid.
SamePairValid == Desc(last.d.url, last.d.ts, last.d.nc, {})

\* C13: the nonce-nc advance is committed before the uri, argument and
\* response checks: after a verification that passed the nonce-nc check and
\* returned WRONG_URI or RESPONSE_WRONG, the slot differs from what it was
\* and a verification that follows it, now or at a later clock value, with
\* the same (nonce, nc) and a correct uri and response returns NONCE_STALE.
C13_ConsumedBeforeUri ==
  ( /\ Checked
    /\ last.check = MHD_CHECK_NONCENC_OK
    /\ last.ret \in {MHD_DAUTH_WRONG_URI, MHD_DAUTH_RESPONSE_WRONG} )
  => /\ nnc /= last.before
     /\ \A c \in GateClocks :
          c >= clock =>
            digest_auth_check_all(SamePairValid, c, nnc).ret
              = MHD_DAUTH_NONCE_STALE

\* A request with a wrong uri passed the nonce-nc check, was answered
\* WRONG_URI and left its nc consumed in the slot.
C13_WrongUriConsumes ==
  /\ Checked
  /\ Dev = {"wrong_uri"}
  /\ last.check = MHD_CHECK_NONCENC_OK
  /\ last.ret = MHD_DAUTH_WRONG_URI
  /\ nnc /= last.before
  /\ digest_auth_check_all(SamePairValid, clock, nnc).check
       = MHD_CHECK_NONCENC_STALE

\* The deviations by which 'uri' is not extracted, the ones by which the uri
\* or its arguments differ from the request's, and the allocations that
\* fail while 'uri' is handled.
NoUriTags == {"no_uri", "empty_uri"}

UriMismatchTags ==
  {"wrong_uri", "wrong_args", "extra_arg", "missing_arg", "dup_arg",
   "novalue_arg", "nul_uri", "pct00_uri"}

UriOomTags == {"oom_copy", "oom_strdup"}

\* The nonce-nc check of the last verification passed, 'uri' was extracted
\* and no allocation failed.
UriCompared ==
  /\ Checked
  /\ last.check = MHD_CHECK_NONCENC_OK
  /\ Dev \cap (NoUriTags \cup UriOomTags) = {}

\* C14: after the nonce-nc check passes, the request is rejected with
\* WRONG_URI unless the uri without its query part, unescaped, equals
\* connection.url, every pair of the query part is among the GET arguments
\* of the connection with the same value, and the numbers of both agree; a
\* request whose uri matches in this way is not rejected with WRONG_URI.
C14_UriMustMatch ==
  /\ (UriCompared /\ Dev \cap UriMismatchTags /= {})
       => last.ret = MHD_DAUTH_WRONG_URI
  /\ (UriCompared /\ Dev \cap UriMismatchTags = {})
       => last.ret /= MHD_DAUTH_WRONG_URI

\* A uri that continues after a zero byte, or after an escaped one, passes
\* the comparison with connection.url, and the request is answered OK.
C14_ZeroByteUriAccepted ==
  /\ Checked
  /\ Dev \in {{"nul_uri"}, {"pct00_uri"}}
  /\ last.check = MHD_CHECK_NONCENC_OK
  /\ last.ret = MHD_DAUTH_OK

\* The slot of the nonce of the request d is empty in the array arr.
EmptySlotOf (arr, d) ==
  /\ NonceEntry(d.url, d.ts).idx \in DOMAIN arr
  /\ 0 = At(arr[NonceEntry(d.url, d.ts).idx].nonce, 0)

\* C15: what check_nonce_nc returns propagates unchanged to the result of
\* the verification, STALE as NONCE_STALE and WRONG as NONCE_WRONG, and when
\* check_nonce_nc reads the slot indexed by the nonce of the client and the
\* slot is empty it returns WRONG.
C15_NonceNcPropagates ==
  Checked =>
    /\ last.check = MHD_CHECK_NONCENC_STALE
         => last.ret = MHD_DAUTH_NONCE_STALE
    /\ last.check = MHD_CHECK_NONCENC_WRONG
         => last.ret = MHD_DAUTH_NONCE_WRONG
    /\ ( /\ last.check /= "none"
         /\ "nc_top" \notin Dev
         /\ EmptySlotOf(last.before, last.d) )
       => (last.check = MHD_CHECK_NONCENC_WRONG /\ nnc = last.before)

\* A nonce of an earlier run of the daemon is presented while its slot is
\* empty: check_nonce_nc returns WRONG and the verification NONCE_WRONG.
C15_EmptySlotIsWrong ==
  /\ Checked
  /\ Dev = {}
  /\ EmptySlotOf(last.before, last.d)
  /\ last.check = MHD_CHECK_NONCENC_WRONG
  /\ last.ret = MHD_DAUTH_NONCE_WRONG

\* A nonce whose counter value was verified before is presented again:
\* check_nonce_nc returns STALE and the verification NONCE_STALE.
C15_ReplayIsNonceStale ==
  /\ Checked
  /\ last.replay
  /\ last.check = MHD_CHECK_NONCENC_STALE
  /\ last.ret = MHD_DAUTH_NONCE_STALE

\* The last step was a challenge.
Challenged == last.op = "challenge"

\* The request of the last verification passes every gate that comes before
\* the nonce-nc check.
ReachesNonceNc ==
  /\ NonceGatesPass
  /\ FirstValueTags(Dev) = {}
  /\ "empty_qop" \notin Dev

\* C16: with an array of size 0, every call of MHD_queue_auth_fail_response2
\* returns MHD_NO and queues no response, and every verification that
\* reaches the nonce-nc check returns NONCE_STALE.
C16_NoArray ==
  /\ (Challenged /\ 0 = nnc_size(last.before))
       => /\ last.rc = MHD_NO
          /\ last.queued = NoResponse
          /\ last.tries = << >>
          /\ issued \subseteq {<<1, T0, "added">>}
  /\ (ReachesNonceNc /\ 0 = nnc_size(last.before))
       => /\ last.ret = MHD_DAUTH_NONCE_STALE
          /\ last.check = MHD_CHECK_NONCENC_STALE

\* A daemon without an array refuses a challenge.
C16_ChallengeRefused ==
  /\ Challenged
  /\ 0 = nnc_size(last.before)
  /\ last.rc = MHD_NO
  /\ last.queued = NoResponse

\* A daemon without an array answers NONCE_STALE to a request that is valid
\* in every value, for a nonce of an earlier run.
C16_VerificationStale ==
  /\ ReachesNonceNc
  /\ Dev = {}
  /\ 0 = nnc_size(last.before)
  /\ last.ret = MHD_DAUTH_NONCE_STALE
FirstUseOfRefused ==
  /\ Checked
  /\ nops.check = 1
  /\ <<last.d.url, last.d.ts, "refused">> \in issued

\* C18: a nonce sent by a challenge both of whose admissions were refused
\* produces NONCE_STALE, not OK and not NONCE_WRONG, on its first use within
\* the timeout, under every interleaving of the other admissions and
\* verifications.
C18_RefusedIsStale ==
  FirstUseOfRefused => last.ret = MHD_DAUTH_NONCE_STALE

\* Both admissions of a challenge were refused, the first one because
\* another challenge for the same resource in the same millisecond had
\* registered the same nonce, and the first use of the nonce is answered OK.
C18_RefusedIsOK ==
  /\ FirstUseOfRefused
  /\ <<last.d.url, last.d.ts, "added">> \in issued
  /\ last.check = MHD_CHECK_NONCENC_OK
  /\ last.ret = MHD_DAUTH_OK

(***************************************************************************)
(* The legacy entry points (specification SpecLegacy)                      *)
(***************************************************************************)

MHD_INVALID_NONCE == "MHD_INVALID_NONCE"

\* The digest the application passes to MHD_digest_auth_check_digest2():
\* H(username ":" realm ":" password).
UserDigest ==
  digest_calc_hash(Algo, Username \o Colon \o Realm \o Colon \o Password)

\* The requests verified through the legacy entry points: the honest ones
\* and some for each result of the verifier.
LegacyDeviations ==
  {{}, {"wrong_username"}, {"wrong_realm"}, {"no_uri"}, {"wrong_uri"},
   {"wrong_response"}, {"forged_nonce"}, {"nc_zero"}, {"oom_copy"}}

LegacyRequestsFor (u, ts) ==
  {d \in GateRequestsFor(u, ts) : d.dev \in LegacyDeviations}

LegacyRequests == UNION {LegacyRequestsFor(n[1], n[2]) : n \in issued}

\* digest_auth_check_all() after check_nonce_nc() returned OK, when it is
\* given the digest of the user and no password.
auth_check_postlock_digest (d, t) ==
  With(Connection(d), LAMBDA c :
  With(check_username_realm_nonce(c, Algo, Realm, Username, TimeoutOf(d),
                                  U64(t), EnvOf(d)), LAMBDA g1 :
  With(check_cnonce_qop_nc_response(c.params, g1.heap, EnvOf(d)), LAMBDA g2 :
    IF g1.ret /= "go" THEN Reject(g1.ret, g1.heap)
    ELSE IF g2.ret /= "go" THEN Reject(g2.ret, g2.heap)
    ELSE check_uri_response(c, Algo, Realm, Username, << >>, UserDigest,
                            g1.noncehashexp, g2, EnvOf(d)))))

PostlockDigestTable ==
  [k \in (UNION {LegacyRequestsFor(u, ts) :
                   u \in Urls, ts \in GateTimestamps}) \X GateClocks |->
     auth_check_postlock_digest(k[1], k[2])] @@ << >>

\* digest_auth_check_all() given the digest of the user: as with the password
\* up to the computation of H(A1), which only a request that passed
\* check_nonce_nc() reaches.
digest_auth_check_all_digest (d, t, arr) ==
  With(digest_auth_check_all(d, t, arr), LAMBDA r :
    IF r.check /= MHD_CHECK_NONCENC_OK THEN r
    ELSE [r EXCEPT !.ret = PostlockDigestTable[<<d, t>>].ret,
                   !.heap = FreeHeap(PostlockDigestTable[<<d, t>>].heap)])

\* An entry point that reports a nonce the daemon did not generate as a
\* failed authentication; C19_LegacyResults tells it from legacy_result.
legacy_result_wrong_is_no (res) ==
  IF MHD_DAUTH_OK = res THEN MHD_YES
  ELSE IF MHD_DAUTH_NONCE_STALE = res THEN MHD_INVALID_NONCE
  ELSE MHD_NO

\* MHD_digest_auth_check2() and MHD_digest_auth_check_digest2(): the value
\* returned for the result res of the verification.
legacy_result (res) ==
  IF MHD_DAUTH_OK = res THEN MHD_YES
  ELSE IF MHD_DAUTH_NONCE_STALE = res \/ MHD_DAUTH_NONCE_WRONG = res
    THEN MHD_INVALID_NONCE
  ELSE MHD_NO

\* MHD_digest_auth_check2() for the request d: MHD_digest_auth_check3() and
\* the value for its result.
MHD_digest_auth_check2 (d) ==
  /\ nops.check < MaxGateChecks
  /\ \E r \in {digest_auth_check_all(d, clock, nnc)} :
         /\ nnc' = r.arr
         /\ accepted' = IF r.check = MHD_CHECK_NONCENC_OK
                          THEN accepted \cup {Pair(d)}
                          ELSE accepted
         /\ last' = [Completed(d, clock, r.ret, r.check, nnc)
                       EXCEPT !.heap = r.heap,
                              !.entry = "MHD_digest_auth_check2",
                              !.rc = legacy_result(r.ret)]
  /\ nops' = [nops EXCEPT !.check = @ + 1]
  /\ UNCHANGED <<nnc_lock, clock, th, issued>>

\* MHD_digest_auth_check_digest2() for the request d:
\* MHD_digest_auth_check_digest3() and the value for its result.
MHD_digest_auth_check_digest2 (d) ==
  /\ nops.check < MaxGateChecks
  /\ \E r \in {digest_auth_check_all_digest(d, clock, nnc)} :
         /\ nnc' = r.arr
         /\ accepted' = IF r.check = MHD_CHECK_NONCENC_OK
                          THEN accepted \cup {Pair(d)}
                          ELSE accepted
         /\ last' = [Completed(d, clock, r.ret, r.check, nnc)
                       EXCEPT !.heap = r.heap,
                              !.entry = "MHD_digest_auth_check_digest2",
                              !.rc = legacy_result(r.ret)]
  /\ nops' = [nops EXCEPT !.check = @ + 1]
  /\ UNCHANGED <<nnc_lock, clock, th, issued>>

LegacyNext ==
  \/ GateTick
  \/ \E u \in Urls, base4 \in Base4Values :
       MHD_queue_auth_fail_response2(u, base4, "none")
  \/ \E d \in LegacyRequests : MHD_digest_auth_check2(d)
  \/ \E d \in LegacyRequests : MHD_digest_auth_check_digest2(d)

SpecLegacy == GateInit /\ [][LegacyNext]_vars

\* The last step was a verification through a legacy entry point.
LegacyChecked == Checked /\ last.entry /= "none"

\* C19: MHD_digest_auth_check2 and MHD_digest_auth_check_digest2 return
\* MHD_YES for OK, MHD_INVALID_NONCE for NONCE_STALE and for NONCE_WRONG, and
\* MHD_NO for every other result of the verification.
C19_LegacyResults ==
  LegacyChecked
  => /\ last.ret = MHD_DAUTH_OK <=> last.rc = MHD_YES
     /\ last.ret \in {MHD_DAUTH_NONCE_STALE, MHD_DAUTH_NONCE_WRONG}
          <=> last.rc = MHD_INVALID_NONCE
     /\ last.ret \in {MHD_DAUTH_WRONG_HEADER, MHD_DAUTH_WRONG_USERNAME,
                       MHD_DAUTH_WRONG_REALM, MHD_DAUTH_WRONG_URI,
                       MHD_DAUTH_RESPONSE_WRONG, MHD_DAUTH_ERROR}
          <=> last.rc = MHD_NO
     /\ last.rc \in {MHD_YES, MHD_INVALID_NONCE, MHD_NO}

\* MHD_digest_auth_check_digest2 returns MHD_INVALID_NONCE for a nonce that
\* the daemon did not generate.
C19_ForgedNonceInvalid ==
  /\ LegacyChecked
  /\ last.entry = "MHD_digest_auth_check_digest2"
  /\ Dev = {"forged_nonce"}
  /\ last.ret = MHD_DAUTH_NONCE_WRONG
  /\ last.rc = MHD_INVALID_NONCE

\* The verification reached an allocation that failed: the heap buffer of the
\* unquoter for the nonce, the copy of the uri, or the copy of the arguments
\* of the uri.
AllocationFailed ==
  \/ "oom_nonce" \in Dev /\ PassesRealm
  \/ Dev \cap UriOomTags /= {} /\ last.check = MHD_CHECK_NONCENC_OK

\* C20: every allocation failure inside a verification surfaces as
\* MHD_DAUTH_ERROR: that of the heap buffer of the unquoter, that of the copy
\* of the uri, and that of the copy of the uri arguments made by
\* check_argument_match.
C20_AllocationFailureIsError ==
  Checked /\ AllocationFailed => last.ret = MHD_DAUTH_ERROR

\* The copy of the uri arguments could not be allocated, and the request is
\* answered as one whose uri does not match.
C20_StrdupFailureIsWrongUri ==
  /\ Checked
  /\ Dev = {"oom_strdup"}
  /\ last.check = MHD_CHECK_NONCENC_OK
  /\ last.ret = MHD_DAUTH_WRONG_URI

\* The failures of the unquoter and of the copy of the uri surface as
\* MHD_DAUTH_ERROR.
C20_OtherFailuresAreError ==
  Checked /\ AllocationFailed /\ "oom_strdup" \notin Dev
  => last.ret = MHD_DAUTH_ERROR

(***************************************************************************)
(* Admission into the nonce-nc map array (specifications Spec, SpecGates)  *)
(***************************************************************************)

\* The last step was an admission that stored its nonce; the slot of that
\* nonce.  The array before the step is last.before and after it nnc.
Admitted == last.op = "challenge" /\ last.ret = "added"

AdmittedSlot == NonceEntry(last.d.url, last.d.ts).idx

\* The slot i of arr holds a nonce other than that of u and ts, which no
\* request has used and whose timestamp is at most REUSE_TIMEOUT seconds
\* before now.
FreshUnusedOther (arr, i, now, u, ts) ==
  \E k \in NonceKeys :
    /\ k /= <<u, ts>>
    /\ NonceEntry(k[1], k[2]).idx = i
    /\ Held(arr, k[1], k[2])
    /\ arr[i].nc = U64_ZERO
    /\ now - k[2] \in 0..(REUSE_TIMEOUT * 1000)

\* C21: no admission overwrites a slot that holds a different nonce which no
\* client has used (nc = 0) and whose timestamp is at most 30000 ms before
\* the value of the clock, be it the first attempt, the retry with a jittered
\* timestamp, or an admission of a thread that read the clock before another
\* thread took the lock.
C21_FreshUnusedKept ==
  Admitted
  => ~ FreshUnusedOther(last.before, AdmittedSlot, last.t,
                        last.d.url, last.d.ts)

\* The retry of a challenge stored its jittered nonce over a nonce that no
\* client has used and that was computed the same millisecond.
C21_RetryOverwritesFresh ==
  /\ Admitted
  /\ Len(last.tries) = 2
  /\ last.d.ts < last.t
  /\ FreshUnusedOther(last.before, AdmittedSlot, last.t,
                      last.d.url, last.d.ts)
  /\ Held(nnc, last.d.url, last.d.ts)

\* The first attempt of an admission leaves such a nonce in its slot.
C21_FirstAttemptKeepsFresh ==
  Admitted /\ Len(last.tries) = 1
  => ~ FreshUnusedOther(last.before, AdmittedSlot, last.t,
                        last.d.url, last.d.ts)

\* Thread i is in the locked section of calculate_add_nonce() with a nonce
\* that its slot already holds, and takes its step.
AdmitsHeldNonce (i) ==
  /\ th[i].pc \in {"add_locked", "add2_locked"}
  /\ nnc_lock = i
  /\ Held(nnc, th[i].d.url, th[i].d.ts)
  /\ th'[i].pc /= th[i].pc

\* C22: an admission of a nonce that is byte-equal to the nonce its slot
\* holds is refused and leaves the nonce, nc and nmask of the slot (and the
\* rest of the array) as they were, so that the counter values consumed for a
\* nonce still in the table are not reset by another challenge.
C22_SameNonceRefused ==
  [][\A i \in Threads :
       AdmitsHeldNonce(i)
       => /\ nnc' = nnc
          /\ \/ th'[i].pc = "retry"
             \/ last'.op = "challenge" /\ last'.ret = "refused"]_vars

\* A challenge was refused the slot that holds its own nonce, for which a
\* counter value has been consumed, and the slot still records it.
C22_RefusedKeepsConsumed ==
  \E i \in Threads :
    /\ th[i].pc = "retry"
    /\ Held(nnc, th[i].d.url, th[i].d.ts)
    /\ nnc[NonceEntry(th[i].d.url, th[i].d.ts).idx].nc /= U64_ZERO
    /\ \E p \in accepted : p[1] = th[i].d.url /\ p[2] = th[i].d.ts

\* Thread i takes the step of the locked section of calculate_add_nonce().
AdmissionStep (i) ==
  /\ th[i].pc \in {"add_locked", "add2_locked"}
  /\ nnc_lock = i
  /\ th'[i].pc /= th[i].pc

\* The step of thread i stored the nonce.
Stored (i) ==
  th'[i].pc = "idle" /\ last'.op = "challenge" /\ last'.ret = "added"

\* The slot nn has never been written.
NeverUsed (nn) == 0 = At(nn.nonce, 0)

\* What C23 says of an admission of the nonce of u and ts into the slot idx
\* by thread i.
AdmissionStores (i, u, ts, idx) ==
  /\ (\/ NeverUsed(nnc[idx])
      \/ ~ Held(nnc, u, ts) /\ nnc[idx].nc /= U64_ZERO) => Stored(i)
  /\ Stored(i) => /\ Held(nnc', u, ts)
                  /\ nnc'[idx].nc = U64_ZERO
                  /\ nnc'[idx].nmask = {}
                  /\ \A j \in DOMAIN nnc \ {idx} : nnc'[j] = nnc[j]

\* C23: an admission into an empty slot, or into a slot that holds a
\* different nonce already used (nc /= 0), succeeds; after every successful
\* admission the slot holds the new nonce with nc = 0 and nmask = 0, and no
\* other slot has changed.
C23_AdmissionStores ==
  [][\A i \in Threads :
       AdmissionStep(i)
       => AdmissionStores(i, th[i].d.url, th[i].d.ts,
                          NonceEntry(th[i].d.url, th[i].d.ts).idx)]_vars

\* An admission took the slot of a different nonce that a client had used,
\* whose nc and mask were not zero.
C23_UsedSlotTaken ==
  /\ Admitted
  /\ ~ NeverUsed(last.before[AdmittedSlot])
  /\ ~ Held(last.before, last.d.url, last.d.ts)
  /\ last.before[AdmittedSlot].nc /= U64_ZERO
  /\ last.before[AdmittedSlot].nmask /= {}
  /\ Held(nnc, last.d.url, last.d.ts)
  /\ nnc[AdmittedSlot].nc = U64_ZERO
  /\ nnc[AdmittedSlot].nmask = {}

(***************************************************************************)
(* The slots under nonces of two algorithms and of distant timestamps      *)
(* (specification SpecSlots)                                               *)
(***************************************************************************)

\* The adds and the checks of a run, the algorithms of the challenges, the
\* values of the clock (around T0 and around REUSE_TIMEOUT later), which are
\* the timestamps of the nonces as well, and the counter values.
MaxSlotAdds == 2

MaxSlotChecks == 2

SlotAlgos == {"MD5", "SHA256"}

SlotClocks ==
  {T0, T0 + 1, T0 + (REUSE_TIMEOUT * 1000), T0 + (REUSE_TIMEOUT * 1000) + 1}

SlotNcs == {1, 2}

\* The nonces of the runs, named by algorithm, resource and timestamp, with
\* their slots, computed once.
SlotKeys == SlotAlgos \X Urls \X SlotClocks

SlotNonceTable ==
  [k \in SlotKeys |->
     With(calculate_nonce(U64(k[3]), GET, digest_auth_random, Url(k[2]),
                          Realm, k[1]), LAMBDA nonce :
       [nonce |-> nonce,
        idx |-> get_nonce_nc_idx(NonceNcSize, nonce, Len(nonce))])] @@ << >>

SlotNonce (k) == SlotNonceTable[k]

\* The nonce k with the counter value nc.
SlotDesc (k, nc) ==
  [url |-> k[2], ts |-> k[3], nc |-> nc, dev |-> {}, da |-> k[1]]

SlotInit ==
  /\ nnc = [i \in 0..(NonceNcSize - 1) |-> EmptySlot]
  /\ nnc_lock = 0
  /\ clock = T0
  /\ th = [i \in Threads |-> Idle]
  /\ issued = {}
  /\ accepted = {}
  /\ last = NoOp
  /\ nops = [add |-> 0, check |-> 0]

\* MHD_monotonic_msec_counter() advances to a later value.
SlotTick ==
  /\ \E c \in SlotClocks : c > clock /\ clock' = c
  /\ UNCHANGED <<nnc, nnc_lock, th, issued, accepted, last, nops>>

\* calculate_add_nonce() for the resource u with the algorithm da and the
\* value of the clock as timestamp.
calculate_add_nonce (da, u) ==
  /\ nops.add < MaxSlotAdds
  /\ \E e \in {SlotNonce(<<da, u, clock>>)} :
     \E r \in {calculate_add_nonce_locked(nnc[e.idx], U64(clock), e.nonce,
                                          Len(e.nonce))} :
         /\ nnc' = [nnc EXCEPT ![e.idx] = r.nn]
         /\ last' = [NoOp EXCEPT !.op = "add", !.t = clock,
                       !.d = SlotDesc(<<da, u, clock>>, 0),
                       !.before = nnc,
                       !.ret = IF r.ret THEN "added" ELSE "refused"]
  /\ nops' = [nops EXCEPT !.add = @ + 1]
  /\ UNCHANGED <<nnc_lock, clock, th, issued, accepted>>

\* check_nonce_nc() as digest_auth_check_all() calls it for the nonce k and
\* the counter value nc: the daemon computes this nonce for the resource
\* and the timestamp it names (it need not have sent it: the nonce can come
\* from another run of the daemon with the same random seed), and the
\* timestamp is not after the clock nor nonce_timeout before it.
check_nonce_nc_call (k, nc) ==
  /\ nops.check < MaxSlotChecks
  /\ k[3] <= clock
  /\ \E e \in {SlotNonce(k)} :
     \E early \in {check_nonce_nc_early(nnc_size(nnc), Len(e.nonce),
                                        U64(nc))} :
     \E r \in {IF early /= "locked" THEN [ret |-> early, nn |-> nnc[e.idx]]
               ELSE check_nonce_nc_locked(nnc[e.idx], e.nonce, Len(e.nonce),
                                          U64(k[3]), U64(nc))} :
         /\ nnc' = [nnc EXCEPT ![e.idx] = r.nn]
         /\ accepted' = IF r.ret = MHD_CHECK_NONCENC_OK
                          THEN accepted \cup {<<k, nc>>}
                          ELSE accepted
         /\ last' = [NoOp EXCEPT !.op = "check", !.t = clock,
                       !.d = SlotDesc(k, nc), !.before = nnc,
                       !.check = r.ret, !.ret = nonce_nc_result(r.ret),
                       !.replay = <<k, nc>> \in accepted]
  /\ nops' = [nops EXCEPT !.check = @ + 1]
  /\ UNCHANGED <<nnc_lock, clock, th, issued>>

SlotNext ==
  \/ SlotTick
  \/ \E da \in SlotAlgos, u \in Urls : calculate_add_nonce(da, u)
  \/ \E k \in SlotKeys, nc \in SlotNcs : check_nonce_nc_call(k, nc)

SpecSlots == SlotInit /\ [][SlotNext]_vars

\* The nonce of the last step and its slot as the step found it.
LastKey == <<last.d.da, last.d.url, last.d.ts>>

SlotBefore == last.before[SlotNonce(LastKey).idx]

\* The slot nn holds the nonce k, followed by a zero byte.
SlotHolds (nn, k) ==
  /\ memeq(nn.nonce, SlotNonce(k).nonce, Len(SlotNonce(k).nonce))
  /\ 0 = At(nn.nonce, Len(SlotNonce(k).nonce))

\* The last step was a check_nonce_nc() that found in the slot a nonce other
\* than the client's, of the same length, computed diff milliseconds before
\* (diff > 0) or after (diff < 0) the client's.
FoundOther (diff) ==
  /\ Checked
  /\ \E k \in SlotKeys :
       /\ k /= LastKey
       /\ k[1] = last.d.da
       /\ SlotHolds(SlotBefore, k)
       /\ last.d.ts - k[3] = diff

SlotDiffs == {a - b : a \in SlotClocks, b \in SlotClocks}

\* C24: when the slot holds a different, well-formed nonce and the timestamp
\* of the client's nonce is older than the slot's, check_nonce_nc returns
\* STALE (the nonce was overwritten by a newer challenge), not WRONG.
C24_OlderIsStale ==
  \A diff \in SlotDiffs :
    (diff < 0 /\ FoundOther(diff)) => last.check = MHD_CHECK_NONCENC_STALE

\* The nonce of the client was overwritten by a nonce computed a millisecond
\* later, and check_nonce_nc returns WRONG.
C24_OlderIsWrong ==
  /\ FoundOther(-1)
  /\ \E nc \in SlotNcs : <<LastKey, nc>> \in accepted
  /\ last.check = MHD_CHECK_NONCENC_WRONG
  /\ nnc = last.before

\* C25: when the slot holds a different, well-formed nonce and the timestamp
\* of the client's nonce is newer than the slot's, check_nonce_nc returns
\* STALE if the difference is at most REUSE_TIMEOUT (30000 ms) and WRONG if
\* it is larger.
C25_NewerStaleThenWrong ==
  \A diff \in SlotDiffs :
    (diff > 0 /\ FoundOther(diff))
    => last.check = IF diff <= REUSE_TIMEOUT * 1000
                      THEN MHD_CHECK_NONCENC_STALE
                      ELSE MHD_CHECK_NONCENC_WRONG

\* The nonce of the client is 30001 ms newer than the nonce in its slot, and
\* check_nonce_nc returns STALE.
C25_FarNewerIsStale ==
  /\ FoundOther((REUSE_TIMEOUT * 1000) + 1)
  /\ last.check = MHD_CHECK_NONCENC_STALE
  /\ nnc = last.before

\* Up to REUSE_TIMEOUT newer, the nonce of the client is stale.
C25_NearNewerIsStale ==
  \A diff \in SlotDiffs :
    (diff > 0 /\ diff <= REUSE_TIMEOUT * 1000 /\ FoundOther(diff))
    => last.check = MHD_CHECK_NONCENC_STALE

\* The nonce field is a string of one of the two standard lengths, and every
\* byte after the string is zero.
PaddedNonce (field) ==
  /\ strlen(field) \in {NONCE_STD_LEN(MD5_DIGEST_SIZE),
                         NONCE_STD_LEN(SHA256_DIGEST_SIZE)}
  /\ \A j \in (strlen(field) + 1)..Len(field) : field[j] = 0

\* C30: in every reachable state of a daemon that sends challenges with MD5
\* and with SHA-256, the nonce field of each slot is empty or a nonce of
\* length 44 or 76 followed by zero bytes up to the end of the field, so that
\* the byte of the slot at the length of a client nonce that matches it is
\* zero.
C30_SlotsWellFormed ==
  \A i \in DOMAIN nnc : NeverUsed(nnc[i]) \/ PaddedNonce(nnc[i].nonce)

\* A slot holds an MD5 nonce, its terminating zero, and after it the end of
\* the SHA-256 nonce that the slot held before.
C30_TailOfOldNonce ==
  \E i \in DOMAIN nnc :
    /\ strlen(nnc[i].nonce) = NONCE_STD_LEN(MD5_DIGEST_SIZE)
    /\ \E j \in (strlen(nnc[i].nonce) + 2)..Len(nnc[i].nonce) :
         nnc[i].nonce[j] /= 0

\* check_nonce_nc() took the lock for an MD5 nonce whose slot holds a SHA-256
\* nonce: the byte of the slot at the length of the client's nonce is not
\* zero, which mhd_assert (0 == nn->nonce[noncelen]) excludes.
C30_AssertionFails ==
  /\ Checked
  /\ last.d.da = "MD5"
  /\ 0 /= At(SlotBefore.nonce, Len(SlotNonce(LastKey).nonce))

(***************************************************************************)
(* The window of counter values of one nonce (specification SpecWindow)    *)
(***************************************************************************)

\* The checks of a run and the counter values: small ones, values 63, 64 and
\* 65 above them, and the highest ones (a negative n stands for 2^64 + n).
MaxWindowChecks == 4

WindowNcs == {1, 3, 5, 6, 69, 70, -66, -65, -64, -1}

\* The uint64_t with value n modulo 2^64, for -2^31 < n < 2^31.
Nc64 (n) == IF n >= 0 THEN U64(n) ELSE Sub64(U64_ZERO, U64(0 - n))

\* The nonce of the first resource and of T0 is in its slot, or the array is
\* as the daemon starts with it (the client then holds the nonce from an
\* earlier run with the same random seed).
WindowInit ==
  /\ nnc \in {[i \in 0..(NonceNcSize - 1) |-> EmptySlot],
               RaceAdmitted(NonceEntry(1, T0))}
  /\ nnc_lock = 0
  /\ clock = T0
  /\ th = [i \in Threads |-> Idle]
  /\ issued = {<<1, T0, "added">>}
  /\ accepted = {}
  /\ last = NoOp
  /\ nops = [add |-> 1, check |-> 0]

\* check_nonce_nc() for that nonce and the counter value nc.
check_nonce_nc_window (nc) ==
  /\ nops.check < MaxWindowChecks
  /\ \E e \in {NonceEntry(1, T0)} :
     \E r \in {check_nonce_nc(nnc, nnc_size(nnc), e.nonce, Len(e.nonce),
                              U64(T0), Nc64(nc))} :
         /\ nnc' = r.arr
         /\ accepted' = IF r.ret = MHD_CHECK_NONCENC_OK
                          THEN accepted \cup {<<1, T0, nc>>}
                          ELSE accepted
         /\ last' = Completed(Desc(1, T0, nc, {}), clock,
                              nonce_nc_result(r.ret), r.ret, nnc)
  /\ nops' = [nops EXCEPT !.check = @ + 1]
  /\ UNCHANGED <<nnc_lock, clock, th, issued>>

WindowNext == \E nc \in WindowNcs : check_nonce_nc_window(nc)

SpecWindow == WindowInit /\ [][WindowNext]_vars

\* The slot of the nonce before and after the last check, and the counter
\* value of the check.
WindowSlot == NonceEntry(1, T0).idx

WindowBefore == last.before[WindowSlot]

WindowAfter == nnc[WindowSlot]

WindowNc == Nc64(last.d.nc)

\* The last step was a check that found its nonce in the slot and a counter
\* value that the guard against the highest values lets through.
WindowChecked ==
  /\ Checked
  /\ Held(last.before, 1, T0)
  /\ last.d.nc > 0 \/ last.d.nc < -65

\* nc - slot.nc of the last check, and whether it is below 64, 64, or more.
WindowJump == Sub64(WindowNc, WindowBefore.nc)

\* The mask old shifted left by jump < 64, with the bit jump - 1 set.
ShiftedMask (old, jump) ==
  {b \in Bits64 : b - jump \in old} \cup {jump - 1}

\* C26 (as amended): when the slot matches the nonce and nc > slot.nc,
\* check_nonce_nc returns OK and sets slot.nc = nc; with jump = nc - slot.nc,
\* for jump < 64 the new nmask is the old one shifted left by jump with bit
\* jump - 1 set, for jump = 64 it has bit 63 set and no other, and for every
\* jump > 64 it is 0.
C26_BumpShiftsMask ==
  (WindowChecked /\ Lt64(WindowBefore.nc, WindowNc))
  => /\ last.check = MHD_CHECK_NONCENC_OK
     /\ WindowAfter.nc = WindowNc
     /\ WindowAfter.nonce = WindowBefore.nonce
     /\ WindowAfter.nmask =
          IF Lt64(WindowJump, U64(64))
            THEN ShiftedMask(WindowBefore.nmask, Int64(WindowJump))
          ELSE IF WindowJump = U64(64) THEN {63}
          ELSE {}

\* The counter jumped by 64 from a value that was verified, and the mask
\* keeps that value as bit 63.
C26_JumpOf64 ==
  /\ WindowChecked
  /\ Lt64(WindowBefore.nc, WindowNc)
  /\ WindowJump = U64(64)
  /\ WindowBefore.nmask /= {}
  /\ WindowAfter.nmask = {63}

\* C26 (as stated): as above, but for every jump >= 64 the new nmask is 0.
C26_BumpClearsFrom64 ==
  (WindowChecked /\ Lt64(WindowBefore.nc, WindowNc))
  => /\ last.check = MHD_CHECK_NONCENC_OK
     /\ WindowAfter.nc = WindowNc
     /\ WindowAfter.nmask =
          IF Lt64(WindowJump, U64(64))
            THEN ShiftedMask(WindowBefore.nmask, Int64(WindowJump))
          ELSE {}

\* slot.nc - nc of the last check, for nc < slot.nc.
WindowBack == Sub64(WindowBefore.nc, WindowNc)

\* C27: when the slot matches the nonce, nc = slot.nc gives STALE; nc <
\* slot.nc with slot.nc - nc <= 64 and bit slot.nc - nc - 1 of nmask clear
\* gives OK and sets exactly that bit, slot.nc staying as it is; nc < slot.nc
\* with the bit set, or with slot.nc - nc > 64, gives STALE and leaves the
\* slot unchanged.
C27_OutOfOrder ==
  (WindowChecked /\ ~ Lt64(WindowBefore.nc, WindowNc))
  => IF WindowNc /= WindowBefore.nc
        /\ Le64(WindowBack, U64(64))
        /\ (Int64(WindowBack) - 1) \notin WindowBefore.nmask
       THEN /\ last.check = MHD_CHECK_NONCENC_OK
            /\ WindowAfter =
                 [WindowBefore EXCEPT
                    !.nmask = @ \cup {Int64(WindowBack) - 1}]
       ELSE /\ last.check = MHD_CHECK_NONCENC_STALE
            /\ WindowAfter = WindowBefore

\* After 5 was verified, 3 is accepted out of order and its bit set; 3 again
\* is stale.
C27_ResentIsStale ==
  /\ WindowChecked
  /\ last.d.nc = 3
  /\ WindowBefore.nc = U64(5)
  /\ 1 \in WindowBefore.nmask
  /\ <<1, T0, 3>> \in accepted
  /\ last.check = MHD_CHECK_NONCENC_STALE
  /\ WindowAfter = WindowBefore

\* The shift counts the locked section of check_nonce_nc() computes for the
\* matching slot nn and the counter nc: jump_size and jump_size - 1 for a
\* small jump, 63 for a jump of 64, nn->nc - nc - 1 for a counter inside the
\* window (the right operand of && is evaluated only when the left holds).
check_nonce_nc_shifts (nn, nc) ==
  IF Lt64(nn.nc, nc)
    THEN IF Lt64(Sub64(nc, nn.nc), U64(64))
           THEN {Sub64(nc, nn.nc), Sub64(Sub64(nc, nn.nc), U64(1))}
         ELSE IF Sub64(nc, nn.nc) = U64(64) THEN {U64(63)}
         ELSE {}
  ELSE IF Lt64(nc, nn.nc)
    THEN IF Le64(nn.nc, Add64(nc, U64(64)))
           THEN {Sub64(Sub64(nn.nc, nc), U64(1))}
           ELSE {}
  ELSE {}

\* nc + 64 of check_nonce_nc() does not fit 64 bits.
check_nonce_nc_sum_wraps (nc) == Lt64(Add64(nc, U64(64)), nc)

\* C28: check_nonce_nc returns STALE for every nc >= 2^64 - 64 without
\* reading or changing a slot, and for every nc it lets through, the
\* arithmetic of the window (nc + 64, slot.nc - nc - 1, the shifts) neither
\* overflows 64 bits nor shifts by 64 or more.
C28_TopNcIsStale ==
  /\ (Checked /\ last.d.nc \in -64..-1)
     => last.check = MHD_CHECK_NONCENC_STALE /\ nnc = last.before
  /\ WindowChecked
     => /\ \A sh \in check_nonce_nc_shifts(WindowBefore, WindowNc) :
             Lt64(sh, U64(64))
        /\ ~ check_nonce_nc_sum_wraps(WindowNc)

\* The counter value 2^64 - 1 is stale for a nonce whose slot was never
\* written, where every counter value the guard lets through is wrong.
C28_TopNcOnEmptySlot ==
  /\ Checked
  /\ last.d.nc = -1
  /\ NeverUsed(WindowBefore)
  /\ last.check = MHD_CHECK_NONCENC_STALE
  /\ nnc = last.before

\* The highest counter value let through, 2^64 - 66, is verified after a
\* smaller one: nc + 64 is 2^64 - 2.
C28_HighestAccepted ==
  /\ WindowChecked
  /\ last.d.nc = -66
  /\ WindowBefore.nc /= U64_ZERO
  /\ last.check = MHD_CHECK_NONCENC_OK

(***************************************************************************)
(* The lock of the nonce-nc map array (specification Spec)                 *)
(***************************************************************************)

\* Thread i is between MHD_mutex_lock_chk_() and MHD_mutex_unlock_chk_(),
\* where calculate_add_nonce() and check_nonce_nc() read and write the slot.
InSlotAccess (i) == th[i].pc \in {"add_locked", "add2_locked", "check_locked"}

\* The threads in a slot access are the holder of the lock, and nobody else
\* holds it: a thread that is not in a slot access has released it.
LockHeldInAccess ==
  /\ \A i \in Threads : InSlotAccess(i) <=> nnc_lock = i
  /\ nnc_lock \in Threads \cup {0}

\* A step that changes a slot, or that returns what was found in a slot, is
\* the step of the holder of the lock, which releases it.
AccessByHolder ==
  (nnc' /= nnc \/ (last' /= last /\ last'.check /= "none")
               \/ (last' /= last /\ last'.op = "challenge"))
  => /\ nnc_lock \in Threads
     /\ InSlotAccess(nnc_lock)
     /\ th'[nnc_lock].pc /= th[nnc_lock].pc
     /\ nnc_lock' = 0

\* C29: every read and every write of the nonce, nc and nmask of a slot, in
\* admission and in verification, happens while the calling thread holds
\* nnc_lock; no two threads are in a slot access at the same time; and a
\* thread that took the lock releases it before its operation returns.
C29_SlotsUnderLock == [] LockHeldInAccess /\ [][AccessByHolder]_vars

\* A thread is in its slot access while the other one waits for the lock.
C29_OneWaits ==
  \E i \in Threads, j \in Threads :
    /\ InSlotAccess(i)
    /\ nnc_lock = i
    /\ th[j].pc \in {"add", "add2", "check"}

(***************************************************************************)
(* Sequences of admissions and verifications on one slot                   *)
(* (specification SpecSeq)                                                 *)
(***************************************************************************)

\* The admissions and the checks of a run; two nonces of the same slot and
\* of the same timestamp; counter values at both ends of the window of 64 and
\* at the top of the 64-bit range (a negative n stands for 2^64 + n).
MaxSeqAdds == 2

MaxSeqChecks == 4

SeqKeys == {<<1, T0>>, <<2, T0>>}

SeqNcs == {1, 2, 3, 67, -66, -65}

SeqInit ==
  /\ nnc = [i \in 0..(NonceNcSize - 1) |-> EmptySlot]
  /\ nnc_lock = 0
  /\ clock = T0
  /\ th = [i \in Threads |-> Idle]
  /\ issued = {}
  /\ accepted = {}
  /\ last = NoOp
  /\ nops = [add |-> 0, check |-> 0]

\* calculate_add_nonce() for the nonce k; issued tells a first admission of
\* the nonce ("added") from a later one ("readmitted").
calculate_add_nonce_seq (k) ==
  /\ nops.add < MaxSeqAdds
  /\ \E e \in {NonceEntry(k[1], k[2])} :
     \E r \in {calculate_add_nonce_locked(nnc[e.idx], U64(k[2]), e.nonce,
                                          Len(e.nonce))} :
         /\ nnc' = [nnc EXCEPT ![e.idx] = r.nn]
         /\ issued' = IF ~ r.ret THEN issued
                      ELSE IF <<k[1], k[2], "added">> \in issued
                        THEN issued \cup {<<k[1], k[2], "readmitted">>}
                      ELSE issued \cup {<<k[1], k[2], "added">>}
         /\ last' = [NoOp EXCEPT !.op = "add", !.t = clock,
                       !.d = Desc(k[1], k[2], 0, {}), !.before = nnc,
                       !.ret = IF r.ret THEN "added" ELSE "refused"]
  /\ nops' = [nops EXCEPT !.add = @ + 1]
  /\ UNCHANGED <<nnc_lock, clock, th, accepted>>

\* check_nonce_nc() for the nonce k and the counter value nc.
check_nonce_nc_seq (k, nc) ==
  /\ nops.check < MaxSeqChecks
  /\ \E e \in {NonceEntry(k[1], k[2])} :
     \E early \in {check_nonce_nc_early(nnc_size(nnc), Len(e.nonce),
                                        Nc64(nc))} :
     \E r \in {IF early /= "locked" THEN [ret |-> early, nn |-> nnc[e.idx]]
               ELSE check_nonce_nc_locked(nnc[e.idx], e.nonce, Len(e.nonce),
                                          U64(k[2]), Nc64(nc))} :
         /\ nnc' = [nnc EXCEPT ![e.idx] = r.nn]
         /\ accepted' = IF r.ret = MHD_CHECK_NONCENC_OK
                          THEN accepted \cup {<<k[1], k[2], nc>>}
                          ELSE accepted
         /\ last' = Completed(Desc(k[1], k[2], nc, {}), clock,
                              nonce_nc_result(r.ret), r.ret, nnc)
  /\ nops' = [nops EXCEPT !.check = @ + 1]
  /\ UNCHANGED <<nnc_lock, clock, th, issued>>

SeqNext ==
  \/ \E k \in SeqKeys : calculate_add_nonce_seq(k)
  \/ \E k \in SeqKeys, nc \in SeqNcs : check_nonce_nc_seq(k, nc)

SpecSeq == SeqInit /\ [][SeqNext]_vars

\* C31: in every reachable state and for every slot, every set bit i of nmask
\* satisfies i < slot.nc: the mask records only counter values from 0 to
\* slot.nc - 1, and a slot with nc = 0 has nmask = 0.
C31_MaskBelowNc ==
  \A i \in DOMAIN nnc : \A b \in nnc[i].nmask : Lt64(U64(b), nnc[i].nc)

\* After the counter values 1, 2 and 3 the mask of the slot has its bits 0,
\* 1 and 2 set: the highest one stands for the counter value 0.
C31_MaskUpToZero ==
  \E i \in DOMAIN nnc : nnc[i].nc = U64(3) /\ nnc[i].nmask = {0, 1, 2}

\* A step lowers the counter of a slot only if it is a successful admission
\* that replaces the nonce of the slot, and the counter is then 0.
NcLoweredByAdmission ==
  \A i \in DOMAIN nnc :
    Lt64(nnc'[i].nc, nnc[i].nc)
    => /\ last'.op = "add"
       /\ last'.ret = "added"
       /\ NonceEntry(last'.d.url, last'.d.ts).idx = i
       /\ ~ Held(nnc, last'.d.url, last'.d.ts)
       /\ Held(nnc', last'.d.url, last'.d.ts)
       /\ nnc'[i].nc = U64_ZERO

\* C32: over any sequence of admissions and verifications, the nc of a slot
\* never decreases while the slot keeps holding the same nonce; it goes down
\* only at a successful admission that replaces the nonce of the slot, and
\* it is 0 then.
C32_NcMonotone == [][NcLoweredByAdmission]_vars

\* An admission has replaced a nonce whose counter had reached 67, after a
\* smaller counter value of that nonce was accepted out of order.
C32_ReplacedAfterOutOfOrder ==
  /\ last.op = "add"
  /\ last.ret = "added"
  /\ \E i \in DOMAIN nnc :
       /\ last.before[i].nc = U64(67)
       /\ last.before[i].nmask /= {}
       /\ nnc[i].nc = U64_ZERO

\* The counter values accepted for the nonce of the last check before that
\* check.
AcceptedBefore ==
  {p[3] : p \in {q \in accepted : /\ q[1] = last.d.url
                                 /\ q[2] = last.d.ts
                                 /\ (q[3] /= last.d.nc \/ last.replay)}}

\* The last step was a check_nonce_nc() for a nonce that has stayed in its
\* slot since its admission, with a counter value that is above 0 and below
\* 2^64 - 65, that was never accepted for the nonce and that is not more
\* than 64 below the highest one accepted.
FreshInWindow ==
  /\ Checked
  /\ Held(last.before, last.d.url, last.d.ts)
  /\ <<last.d.url, last.d.ts, "readmitted">> \notin issued
  /\ last.d.nc > 0 \/ last.d.nc < -65
  /\ ~ last.replay
  /\ \A h \in AcceptedBefore :
       Lt64(Nc64(last.d.nc), Nc64(h))
       => Le64(Sub64(Nc64(h), Nc64(last.d.nc)), U64(64))

\* C39: no false replay verdict: for a nonce that stays registered in its
\* slot, a check_nonce_nc call with an nc that is greater than 0, below
\* 2^64 - 65, was never accepted before for this nonce, and is not more than
\* 64 below the highest accepted nc, returns OK.
C39_NoFalseReplay == FreshInWindow => last.check = MHD_CHECK_NONCENC_OK

\* The counter value 3 is accepted after 67 and 2: it is 64 below the highest.
C39_EdgeOfWindow ==
  /\ FreshInWindow
  /\ last.d.nc = 3
  /\ AcceptedBefore = {2, 67}
  /\ last.check = MHD_CHECK_NONCENC_OK

(***************************************************************************)
(* The slot of a nonce (specification SpecSlots)                           *)
(***************************************************************************)

\* fast_simple_hash modulo the number of slots, for the nonces of the runs.
SlotHashTable ==
  [k \in SlotKeys |->
     Mod32(fast_simple_hash(SlotNonce(k).nonce, Len(SlotNonce(k).nonce)),
           NonceNcSize)] @@ << >>

\* The slot i holds no nonce.
SlotEmpty (i) == 0 = At(nnc[i].nonce, 0)

\* C33: in every reachable state, every non-empty slot at index i holds a
\* nonce whose fast_simple_hash modulo N equals i; hence a nonce is held by at
\* most one slot, and an admission and a verification of a nonce address the
\* slot of that index and no other.
C33_SlotOfHash ==
  /\ \A i \in DOMAIN nnc :
       SlotEmpty(i)
       \/ \E k \in SlotKeys : SlotHolds(nnc[i], k) /\ SlotHashTable[k] = i
  /\ \A k \in SlotKeys :
       Cardinality({i \in DOMAIN nnc : SlotHolds(nnc[i], k)}) <= 1
  /\ last.op \in {"add", "check"}
     => \A i \in DOMAIN nnc :
          nnc[i] /= last.before[i] => i = SlotHashTable[LastKey]

\* Both slots hold a nonce, one of each algorithm, and the last check has
\* changed the slot its nonce was admitted to.
C33_BothSlotsHeld ==
  /\ \A i \in DOMAIN nnc : ~ SlotEmpty(i)
  /\ \E i \in DOMAIN nnc, j \in DOMAIN nnc, u \in Urls, v \in Urls,
        c \in SlotClocks, e \in SlotClocks :
       /\ SlotHolds(nnc[i], <<"MD5", u, c>>)
       /\ SlotHolds(nnc[j], <<"SHA256", v, e>>)
  /\ Checked
  /\ last.check = MHD_CHECK_NONCENC_OK
  /\ nnc[SlotHashTable[LastKey]] /= SlotBefore

(***************************************************************************)
(* Timestamps of 64 and of 48 bits (specification SpecTime)                *)
(***************************************************************************)

\* A value of the clock is named <<e, n>> and is e * 2^48 + n modulo 2^64:
\* <<1, -5>> is 5 ms before the 48-bit counter wraps, <<0, -1>> is 2^64 - 1.
Ts64 (tm) == Add64(<<tm[1], 0, 0, 0>>, Nc64(tm[2]))

\* The values of the clock below the greatest jitter, the values of base4
\* and the values timestamp2 takes from them.
LowClocks == {0, 1, 126}

TimeBase4 == {0, 1, 127, 128, 129, 255}

Jittered == {retry_timestamp(c, c, b) : c \in LowClocks, b \in TimeBase4}

\* The timestamps nonces are computed from: around 0, 2^48 and 2^64.
TimeMarks ==
  {<<0, T0>>, <<1, -5>>, <<1, 0>>, <<1, 1>>, <<1, T0>>, <<0, -T0>>}
  \cup {<<0, n>> : n \in Jittered}

\* The ages a nonce is looked at: around REUSE_TIMEOUT and nonce_timeout.
Ages ==
  {0, 1, 10, REUSE_TIMEOUT * 1000, (REUSE_TIMEOUT * 1000) + 1,
   NonceTimeout * 1000, (NonceTimeout * 1000) + 1}

Timeouts == {0, 1, NonceTimeout, WrapTimeout}

Methods == {GET, POST}

\* The nonce of the resource u for the value of the clock age ms after tm.
TimeNonce (tm, age, u) ==
  calculate_nonce(Add64(Ts64(tm), U64(age)), GET, digest_auth_random, Url(u),
                  Realm, Algo)

\* A slot that holds nonce, never used.
TimeSlot (nonce) ==
  calculate_add_nonce_locked(EmptySlot, U64_ZERO, nonce, Len(nonce)).nn

TimeInit ==
  /\ nnc = << >>
  /\ nnc_lock = 0
  /\ clock = T0
  /\ th = [i \in Threads |-> Idle]
  /\ issued = {}
  /\ accepted = {}
  /\ last = NoOp
  /\ nops = [add |-> 0, check |-> 0]

\* calculate_nonce() for the timestamp tm, and for the timestamp 2^48 later,
\* and get_nonce_timestamp() of the result.
calculate_nonce_step (tm, method, u, da) ==
  /\ last = NoOp
  /\ \E nonce \in {calculate_nonce(Ts64(tm), method, digest_auth_random,
                                   Url(u), Realm, digest_setup(da))} :
       last' = [op |-> "calculate_nonce", tm |-> tm, method |-> method,
                url |-> u, da |-> da, nonce |-> nonce,
                later |-> calculate_nonce(Add64(Ts64(tm), <<1, 0, 0, 0>>),
                                          method, digest_auth_random, Url(u),
                                          Realm, digest_setup(da)),
                parsed |-> get_nonce_timestamp(nonce, Len(nonce))]
  /\ UNCHANGED <<nnc, nnc_lock, clock, th, issued, accepted, nops>>

\* timestamp2 of the retry for the two readings t1 and t2 of the clock.
retry_timestamp_step (t1, t2, base4) ==
  /\ last = NoOp
  /\ last' = [op |-> "retry", t1 |-> t1, t2 |-> t2, base4 |-> base4,
              timestamp2 |-> retry_timestamp(t1, t2, base4)]
  /\ UNCHANGED <<nnc, nnc_lock, clock, th, issued, accepted, nops>>

\* The expiry test of digest_auth_check_all(), age ms after the nonce was
\* computed at tm, for each nonce_timeout.
nonce_expired_step (tm, age) ==
  /\ last = NoOp
  /\ \E nt \in {get_nonce_timestamp(TimeNonce(tm, 0, 1), 0)} :
       last' = [op |-> "expiry", tm |-> tm, age |-> age, parsed |-> nt.ok,
                expired |-> [s \in Timeouts |->
                               nonce_expired(Add64(Ts64(tm), U64(age)),
                                             nt.ts, s)]]
  /\ UNCHANGED <<nnc, nnc_lock, clock, th, issued, accepted, nops>>

\* A slot holds the unused nonce computed at tm; age ms later, what
\* is_slot_available() answers to the nonce of another resource, and what
\* check_nonce_nc() answers to that nonce, which the slot does not hold.
slot_age_step (tm, age) ==
  /\ last = NoOp
  /\ \E nn \in {TimeSlot(TimeNonce(tm, 0, 1))} :
     \E new \in {TimeNonce(tm, age, 2)} :
       last' = [op |-> "slot_age", tm |-> tm, age |-> age,
                available |->
                  is_slot_available(nn, Add64(Ts64(tm), U64(age)), new,
                                    Len(new)),
                other |->
                  check_nonce_nc_other(nn, Len(new),
                                       get_nonce_timestamp(new, Len(new)).ts)]
  /\ UNCHANGED <<nnc, nnc_lock, clock, th, issued, accepted, nops>>

TimeNext ==
  \/ \E tm \in TimeMarks, method \in Methods, u \in Urls, da \in SlotAlgos :
       calculate_nonce_step(tm, method, u, da)
  \/ \E t1 \in LowClocks \cup {T0}, d \in {0, 1}, b \in TimeBase4 :
       retry_timestamp_step(t1, t1 + d, b)
  \/ \E tm \in TimeMarks, age \in Ages : nonce_expired_step(tm, age)
  \/ \E tm \in TimeMarks, age \in Ages : slot_age_step(tm, age)

SpecTime == TimeInit /\ [][TimeNext]_vars

\* The low 48 bits of the value of the clock named tm.
Low48 (tm) == [Ts64(tm) EXCEPT ![1] = 0]

\* C34: nonce generation is a function of (timestamp mod 2^48, method, seed,
\* uri, realm, algo): timestamps equal modulo 2^48 give byte-equal nonces, and
\* the last 12 characters of every generated nonce parse
\* (get_nonce_timestamp) to the low 48 bits of the timestamp it was generated
\* with, for every 64-bit timestamp, the ones obtained by subtracting the
\* jitter from a clock value below 127 included.
C34_NonceOfLow48 ==
  last.op = "calculate_nonce"
  => /\ last.nonce = last.later
     /\ Len(last.nonce) = NONCE_STD_LEN(digest_get_size(digest_setup(last.da)))
     /\ last.parsed.ok
     /\ last.parsed.ts = Low48(last.tm)

\* The nonce of the timestamp 0 - 127, the jitter of 127 ms taken from the
\* clock value 0: it ends in the digits of 2^48 - 127.
C34_JitteredBelowZero ==
  /\ last.op = "calculate_nonce"
  /\ last.tm = <<0, retry_timestamp(0, 0, 127)>>
  /\ last.da = "SHA256"
  /\ last.parsed.ok
  /\ last.parsed.ts = <<0, W - 1, W - 1, W - 127>>

\* C36: in the retry of a challenge the second timestamp always differs from
\* the first: when the second clock reading equals the first, the second
\* timestamp is the reading minus a jitter in [0, 127] ms, and minus 2 ms
\* when that jitter is 0, so it lies in [first - 127, first - 1].
C36_RetryTimestampDiffers ==
  last.op = "retry"
  => /\ Nc64(last.timestamp2) /= Nc64(last.t1)
     /\ last.t1 = last.t2
        => /\ \E jitter \in 0..127 :
                last.timestamp2 = last.t2 - (IF jitter = 0 THEN 2 ELSE jitter)
           /\ last.t1 - last.timestamp2 \in 1..127
           /\ Int64(Sub64(Nc64(last.t1), Nc64(last.timestamp2))) \in 1..127
     /\ last.t1 /= last.t2 => last.timestamp2 = last.t2

\* base4 is 128, whose low seven bits are 0, at the clock value 1: the
\* second timestamp is 2^64 - 1.
C36_FallbackBelowZero ==
  /\ last.op = "retry"
  /\ last.t1 = 1
  /\ last.t2 = 1
  /\ last.base4 = 128
  /\ Nc64(last.timestamp2) = UINT64_MAX

\* C35: the differences between a clock value and a nonce timestamp (expiry
\* gate, slot reuse test, slot comparison in check_nonce_nc) are computed
\* modulo 2^48: whatever the value of the clock the nonce was computed at, the
\* expiry gate reports it stale when its age is above nonce_timeout and not
\* before, also for a nonce issued shortly before the 48-bit counter wraps
\* and verified shortly after; the slot of an unused nonce is available when
\* the age of the nonce is above REUSE_TIMEOUT and not before, and a nonce
\* not more than REUSE_TIMEOUT newer than the one the slot holds is stale.
C35_DifferencesModulo48 ==
  /\ last.op = "expiry"
     => /\ last.parsed
        /\ last.expired[NonceTimeout] <=> last.age > NonceTimeout * 1000
  /\ last.op = "slot_age"
     => /\ last.available <=> last.age > REUSE_TIMEOUT * 1000
        /\ last.age <= REUSE_TIMEOUT * 1000
           => last.other = MHD_CHECK_NONCENC_STALE

\* A nonce computed 5 ms before the 48-bit counter wraps is looked at 5 ms
\* after the wrap: it is not stale.
C35_AcrossTheWrap ==
  /\ last.op = "expiry"
  /\ last.tm = <<1, -5>>
  /\ last.age = 10
  /\ ~ last.expired[NonceTimeout]

\* The slot of an unused nonce computed 5 ms before the wrap is not available
\* 5 ms after it.
C35_SlotAcrossTheWrap ==
  /\ last.op = "slot_age"
  /\ last.tm = <<1, -5>>
  /\ last.age = 10
  /\ ~ last.available
  /\ last.other = MHD_CHECK_NONCENC_STALE

\* C40: the expiry threshold equals nonce_timeout * 1000 milliseconds for
\* every value of the unsigned 32-bit nonce_timeout argument: the
\* multiplication does not wrap, so a larger nonce_timeout never makes a nonce
\* expire earlier than a smaller one.
C40_ThresholdIsProduct ==
  last.op = "expiry"
  => /\ \A s \in Timeouts : last.expired[s] <=> OlderThan(last.age, s)
     /\ \A s1 \in Timeouts, s2 \in Timeouts :
          (s1 <= s2 /\ last.expired[s2]) => last.expired[s1]

\* A nonce of 30 seconds is expired under the nonce_timeout of 4294968
\* seconds and not under the one of 300 seconds.
C40_LargerTimeoutExpiresEarlier ==
  /\ last.op = "expiry"
  /\ last.age = REUSE_TIMEOUT * 1000
  /\ last.expired[WrapTimeout]
  /\ ~ last.expired[NonceTimeout]

\* For the values of nonce_timeout whose product with 1000 is below 2^32 the
\* threshold is the product.
C40_ThresholdBelowWrap ==
  last.op = "expiry"
  => \A s \in Timeouts \ {WrapTimeout} :
       last.expired[s] <=> OlderThan(last.age, s)

(***************************************************************************)
(* The heap scratch buffer of a verification (specification SpecGates)     *)
(***************************************************************************)

\* The parameters digest_auth_check_all() passes to get_unqouted_param(), in
\* the order of the calls, and the allocation each call makes.
ScratchParams (d) ==
  <<rq_nonce(d), rq_cnonce(d), rq_qop(d), rq_nc(d), rq_response(d), rq_uri(d)>>

ScratchSites == <<"nonce", "cnonce", "qop", "nc", "response", "uri">>

\* The heap scratch after each of the calls from the i-th on, which finds it
\* as heap; a verification that returns early makes the first of them only.
RECURSIVE ScratchTrace(_, _, _)
ScratchTrace (d, i, heap) ==
  IF i > Len(ScratchSites) THEN << >>
  ELSE With(get_unqouted_param(ScratchParams(d)[i], heap,
                               malloc_ok(EnvOf(d), ScratchSites[i])).heap,
            LAMBDA h : <<h>> \o ScratchTrace(d, i + 1, h))

\* The size of the heap scratch is 0 or above that of the stack scratch.
ScratchSizeOk (size) == size = 0 \/ size > _MHD_STATIC_UNQ_BUFFER_SIZE

\* From one parameter extraction to the next the heap scratch of the last
\* verification does not shrink, and every buffer allocated during the call
\* was freed once when it returned.
ScratchGrowsAndIsFreed ==
  /\ \A i \in 1..Len(ScratchSites) :
       \E trace \in {<<NoHeap>> \o ScratchTrace(last.d, 1, NoHeap)} :
         /\ trace[i + 1].size >= trace[i].size
         /\ ScratchSizeOk(trace[i + 1].size)
  /\ ~ last.heap.live
  /\ last.heap.frees = last.heap.allocs

\* The last verification went through the handling of the uri parameter.
UriHandled ==
  /\ Checked
  /\ last.ret \in {MHD_DAUTH_OK, MHD_DAUTH_RESPONSE_WRONG, MHD_DAUTH_WRONG_URI}

SlotsChanged == {i \in DOMAIN nnc : nnc[i] /= last.before[i]}

\* C38: a verification call changes the nonce-nc table if and only if its
\* nonce-nc check returns OK, and then it changes only nc and nmask of the
\* one slot indexed by the nonce: a verification that returns at a gate
\* before the table check, or whose table check returns STALE or WRONG,
\* leaves every slot unchanged, and no verification changes the nonce field
\* of a slot.
C38_VerificationFrame ==
  Checked
  => /\ DOMAIN nnc = DOMAIN last.before
     /\ SlotsChanged /= {} <=> last.check = MHD_CHECK_NONCENC_OK
     /\ SlotsChanged \subseteq {NonceEntry(last.d.url, last.d.ts).idx}
     /\ \A i \in DOMAIN nnc : nnc[i].nonce = last.before[i].nonce
     /\ last.check /= MHD_CHECK_NONCENC_OK => nnc = last.before

\* A verification whose table check returned OK fails at a later gate (the
\* response is wrong): the slot of its nonce has changed and the other slot,
\* which holds a nonce too, has not.
C38_RejectedAfterTableCheck ==
  /\ Checked
  /\ last.check = MHD_CHECK_NONCENC_OK
  /\ last.ret = MHD_DAUTH_RESPONSE_WRONG
  /\ SlotsChanged = {NonceEntry(last.d.url, last.d.ts).idx}
  /\ \A i \in DOMAIN nnc : 0 /= At(nnc[i].nonce, 0)

\* The table check found another nonce in the slot and the table is as it
\* was.
C38_OtherNonceKept ==
  /\ Checked
  /\ last.check \in {MHD_CHECK_NONCENC_STALE, MHD_CHECK_NONCENC_WRONG}
  /\ ~ Held(last.before, last.d.url, last.d.ts)
  /\ \E i \in DOMAIN nnc : 0 /= At(nnc[i].nonce, 0)
  /\ nnc = last.before
====
